---- MODULE Spec2Model ----
(***************************************************************************)
(* A model of the AMFS on-disk engine (AM-OperatingSystem/amfs).           *)
(*                                                                         *)
(* Part A models the block allocator (ondisk/allocator.rs): the extent map *)
(* is the BTreeMap<u64, Extent> of the source, a function from the set of  *)
(* start keys to [size, used] records, and every operation is computed the *)
(* way the source computes it.  SpecAlloc drives one allocator object.     *)
(*                                                                         *)
(* Part B models the structures on the disk (pointers, linked lists, the   *)
(* allocator as stored, root groups, superblocks, the object list and the  *)
(* objects) and the calls of the handle (fs.rs).  Spec drives one disk     *)
(* through mkfs_single, open, create_object, write_object, truncate_object *)
(* and commit, with the process stopping at any step of commit.            *)
(***************************************************************************)
EXTENDS Integers, Sequences, FiniteSets, TLC

\* ------------------------------------------------------------------------
\* Bounds of the model
\* ------------------------------------------------------------------------

\* Largest capacity handed to Allocator::new in SpecAlloc.
MaxTotal == 4

\* Blocks of the disk image handed to mkfs_single.
DiskSize == 24

\* Slots of the rootnodes ring of a superblock (128 in the source).
RootSlots == 3

\* Bytes of a block as seen by object data (4096 in the source).
BLOCK_SIZE == 2

\* Object ids used by the calls: 0..MaxObj-1.
MaxObj == 2

\* create_object / write_object / truncate_object calls in a run.
MaxOps == 3

\* commit calls in a run.
MaxCommits == 2

\* Calls and stops in a run, all kinds together.
MaxCalls == 5

\* Times the process stops (crash or exit) and the disk is mounted again.
MaxCrashes == 2

\* ------------------------------------------------------------------------
\* Constants of the program
\* ------------------------------------------------------------------------

\* Entries of a list block: (BLOCK_SIZE - size_of::<LLGHeader>()) / size_of::<T>()
\* for T = u64, AllocListEntry and FreeQueueEntry, with the 4096-byte block.
EntEachU64 == 508

EntEachAlloc == 169

EntEachFree == 127

\* 8-byte words of an object list block behind its 16-byte header.
ObjListWords == 510

\* The device id mkfs_single draws at random.
DevId == 1

\* ------------------------------------------------------------------------
\* Generic helpers
\* ------------------------------------------------------------------------

SetMax(S) == CHOOSE x \in S : \A y \in S : y <= x

SetMin(S) == CHOOSE x \in S : \A y \in S : x <= y

\* The elements of a finite set of integers in increasing order.
RECURSIVE SortedSeq(_)
SortedSeq(S) == IF S = {} THEN <<>> ELSE <<SetMin(S)>> \o SortedSeq(S \ {SetMin(S)})

\* m with key k removed.
MapRemove(m, k) == [x \in (DOMAIN m) \ {k} |-> m[x]]

\* m with key k bound to v (BTreeMap::insert: replaces an existing binding).
MapInsert(m, k, v) == [x \in (DOMAIN m) \cup {k} |-> IF x = k THEN v ELSE m[x]]

\* ------------------------------------------------------------------------
\* Part A: the allocator
\* ------------------------------------------------------------------------

Extent(size, used) == [size |-> size, used |-> used]

\* The result of an allocator call: st is "ok", "err" (an Err return) or
\* "panic" (a failed assertion), a the allocator afterwards, v the values
\* returned (a sequence of block numbers), e the error kind.
ARes(st, a, v, e) == [st |-> st, a |-> a, v |-> v, e |-> e]

\* AllocatorObj::new
AllocatorNew(size) == [size |-> size, extents |-> (0 :> Extent(size, FALSE))]

\* AllocatorObj::free_space
free_space(a) ==
    LET RECURSIVE Sum(_)
        Sum(K) == IF K = {} THEN 0
                  ELSE LET k == SetMin(K)
                       IN (IF a.extents[k].used THEN 0 ELSE a.extents[k].size) + Sum(K \ {k})
    IN Sum(DOMAIN a.extents)

\* AllocatorObj::used_space
used_space(a) ==
    LET RECURSIVE Sum(_)
        Sum(K) == IF K = {} THEN 0
                  ELSE LET k == SetMin(K)
                       IN (IF a.extents[k].used THEN a.extents[k].size ELSE 0) + Sum(K \ {k})
    IN Sum(DOMAIN a.extents)

\* AllocatorObj::total_space
total_space(a) == a.size

\* First pass of AllocatorObj::alloc: the free extents of exactly the size asked.
AllocExact(a, size) == {k \in DOMAIN a.extents : ~a.extents[k].used /\ a.extents[k].size = size}

\* A faulty second pass that forgets to skip the used extents.
AllocLargerAnyExtent(a, size) == {k \in DOMAIN a.extents : a.extents[k].size > size}

\* Second pass of AllocatorObj::alloc: the free extents strictly larger.
AllocLarger(a, size) == {k \in DOMAIN a.extents : ~a.extents[k].used /\ a.extents[k].size > size}

\* A faulty split that marks the whole larger extent used and keeps no remainder.
AllocSplitWholeExtent(a, k, size) == [a EXCEPT !.extents[k].used = TRUE]

\* The split of the second pass: the head of extent k becomes the used extent.
AllocSplit(a, k, size) ==
    [a EXCEPT !.extents =
        MapInsert(MapInsert(a.extents, k, Extent(size, TRUE)),
                  k + size, Extent(a.extents[k].size - size, FALSE))]

\* AllocatorObj::alloc
alloc(a, size) ==
    IF ~(size > 0) \/ ~(size <= a.size) THEN ARes("panic", a, <<>>, "assert")
    ELSE IF AllocExact(a, size) # {}
         THEN LET k == SetMin(AllocExact(a, size))
              IN ARes("ok", [a EXCEPT !.extents[k].used = TRUE], <<k>>, "")
    ELSE IF AllocLarger(a, size) # {}
         THEN LET k == SetMin(AllocLarger(a, size))
              IN ARes("ok", AllocSplit(a, k, size), <<k>>, "")
    ELSE ARes("err", a, <<>>, "AllocFailed")

\* A faulty free that never merges with the next extent.
FreeMergeNextSkipped(a, addr) == a

\* The merge with the next extent in AllocatorObj::free (range(addr..).nth(1)).
FreeMergeNext(a, addr) ==
    LET after == {k \in DOMAIN a.extents : k > addr}
    IN IF after # {} /\ ~a.extents[SetMin(after)].used
       THEN LET n == SetMin(after)
            IN [a EXCEPT !.extents =
                   MapRemove([a.extents EXCEPT ![addr].size = @ + a.extents[n].size], n)]
       ELSE a

\* A faulty merge with the previous extent that grows it but leaves the freed
\* extent in the map.
FreeMergePrevKeepsKey(a, b, addr) ==
    LET before == {k \in DOMAIN a.extents : k < addr}
    IN IF before # {} /\ ~a.extents[SetMax(before)].used
       THEN [b EXCEPT !.extents[SetMax(before)].size = @ + b.extents[addr].size]
       ELSE b

\* The merge with the previous extent in AllocatorObj::free
\* (range(..addr).next_back()); b is the allocator after the merge with the
\* next extent, so b.extents[addr].size is ex.size of the source.
FreeMergePrev(a, b, addr) ==
    LET before == {k \in DOMAIN a.extents : k < addr}
    IN IF before # {} /\ ~a.extents[SetMax(before)].used
       THEN LET p == SetMax(before)
            IN [b EXCEPT !.extents =
                   MapRemove([b.extents EXCEPT ![p].size = @ + b.extents[addr].size], addr)]
       ELSE b

\* AllocatorObj::free
free(a, addr) ==
    IF addr \notin DOMAIN a.extents THEN ARes("err", a, <<>>, "TODO")
    ELSE IF ~a.extents[addr].used THEN ARes("panic", a, <<>>, "assert")
    ELSE LET a1 == [a EXCEPT !.extents[addr].used = FALSE]
             a2 == FreeMergeNext(a1, addr)
         IN ARes("ok", FreeMergePrev(a1, a2, addr), <<>>, "")

\* A faulty split that marks the containing extent used from its start up to
\* the end of the range.
MarkSplitFromExtentStart(a, c, start, size) ==
    LET cs == a.extents[c].size
    IN IF c + cs = start + size THEN [a EXCEPT !.extents[c].used = TRUE]
       ELSE [a EXCEPT !.extents =
                MapInsert(MapInsert(a.extents, c, Extent(start + size - c, TRUE)),
                          start + size, Extent((c + cs) - (start + size), FALSE))]

\* The three splits of AllocatorObj::mark_used; c is the key of the
\* containing extent.
MarkSplit(a, c, start, size) ==
    LET cs == a.extents[c].size
    IN IF start = c
       THEN IF cs = size
            THEN [a EXCEPT !.extents[c].used = TRUE]
            ELSE [a EXCEPT !.extents =
                     MapInsert(MapInsert(a.extents, c, Extent(size, TRUE)),
                               c + size, Extent(cs - size, FALSE))]
       ELSE IF c + cs = start + size
       THEN [a EXCEPT !.extents =
                MapInsert([a.extents EXCEPT ![c].size = cs - size],
                          start, Extent(size, TRUE))]
       ELSE [a EXCEPT !.extents =
                MapInsert(MapInsert([a.extents EXCEPT ![c].size = start - c],
                                    start, Extent(size, TRUE)),
                          start + size, Extent((c + cs) - (start + size), FALSE))]

\* AllocatorObj::mark_used
mark_used(a, start, size) ==
    LET upto == {k \in DOMAIN a.extents : k <= start}
    IN IF upto = {} THEN ARes("panic", a, <<>>, "No containing extent")
       ELSE LET c == SetMax(upto)
            IN IF a.extents[c].used THEN ARes("panic", a, <<>>, "assert")
               ELSE IF ~(c + a.extents[c].size >= start + size)
                    THEN ARes("panic", a, <<>>, "assert")
               ELSE ARes("ok", MarkSplit(a, c, start, size), <<>>, "")

\* A faulty roll-back that returns AllocFailed and keeps the blocks taken.
FreeAllSkipped(a, blocks) == ARes("err", a, <<>>, "AllocFailed")

\* The roll-back of AllocatorObj::alloc_many: frees the blocks taken so far,
\* in the order they were taken.
RECURSIVE FreeAll(_, _)
FreeAll(a, blocks) ==
    IF blocks = <<>> THEN ARes("err", a, <<>>, "AllocFailed")
    ELSE LET r == free(a, Head(blocks))
         IN IF r.st = "ok" THEN FreeAll(r.a, Tail(blocks))
            ELSE ARes("panic", r.a, <<>>, "Failed to free after failed allocation")

\* AllocatorObj::alloc_many: count times alloc(1).
RECURSIVE AllocManyLoop(_, _, _)
AllocManyLoop(a, count, got) ==
    IF count = 0 THEN ARes("ok", a, got, "")
    ELSE LET r == alloc(a, 1)
         IN IF r.st = "ok" THEN AllocManyLoop(r.a, count - 1, got \o r.v)
            ELSE IF r.st = "panic" THEN ARes("panic", r.a, <<>>, r.e)
            ELSE FreeAll(a, got)

alloc_many(a, count) == AllocManyLoop(a, count, <<>>)

\* ------------------------------------------------------------------------
\* Part B: blocks, pointers and the structures stored on the disk
\*
\* A block is a record tagged by what was last written to it.  ZeroBlock is
\* the 4096 zero bytes mkfs leaves everywhere, TornBlock a block whose write
\* was cut short.  The CRC32 of a block is modelled as a collision-free
\* digest of its content; the checksum 0 of a pointer that was never updated
\* is NoSum, which is the digest of no block.
\* ------------------------------------------------------------------------

ZeroBlock == [t |-> "zero"]

TornBlock == [t |-> "torn"]

NoSum == [t |-> "nosum"]

\* Hasher::new().update(target).finalize()
Crc(c) == [t |-> "crc", of |-> c]

\* AMPointer::new: padding 0xFF, checksum 0
AMPointerNew(addr) == [loc |-> addr, sum |-> NoSum, null |-> FALSE]

\* AMPointer::null: padding 0
AMPointerNull == [loc |-> 0, sum |-> NoSum, null |-> TRUE]

\* Disk::get_header_locs
get_header_locs == <<0, 1, DiskSize - 2, DiskSize - 1>>

\* The state an operation works on: the disk, the allocator shared by the
\* handle and its disk group, the journal, the free queue and the current
\* txid, together with the blocks written (w, the last one in lw) and
\* allocated (na) so far, and how the operation ended (st, e).
World(d, a, jn, fq, txid) ==
    [disk |-> d, al |-> a, jn |-> jn, fq |-> fq, cur_txid |-> txid,
     w |-> {}, lw |-> -1, na |-> {}, st |-> "ok", e |-> ""]

MErr(m, e) == IF m.st = "ok" THEN [m EXCEPT !.st = "err", !.e = e] ELSE m

MPanic(m, e) == IF m.st = "ok" THEN [m EXCEPT !.st = "panic", !.e = e] ELSE m

\* A world together with the value an operation returned.
R(m, v) == [m |-> m, v |-> v]

\* let x = v in Body(x): the value is computed once and named.
Let(v, Body(_)) == Body(v)

\* Disk::write_at (DiskMem): a block beyond the disk is an index out of bounds.
write_at(m, loc, c) ==
    IF m.st # "ok" THEN m
    ELSE IF loc \notin DOMAIN m.disk THEN MPanic(m, "index")
    ELSE [m EXCEPT !.disk[loc] = c, !.w = @ \cup {loc}, !.lw = loc]

\* AMPointerGlobal::validate / AMPointerLocal::validate
validate(disk, p) == ~p.null /\ p.loc \in DOMAIN disk /\ p.sum = Crc(disk[p.loc])

\* AMPointerGlobal::update / AMPointerLocal::update
update(disk, p) == [p EXCEPT !.sum = Crc(disk[p.loc])]

\* DiskGroup::alloc_blocks
dg_alloc_blocks(m, n) ==
    IF m.st # "ok" THEN R(m, AMPointerNull)
    ELSE Let(alloc(m.al, n), LAMBDA r :
         IF r.st = "ok"
         THEN R([m EXCEPT !.al = r.a, !.na = @ \cup (r.v[1]..(r.v[1] + n - 1))],
                AMPointerNew(r.v[1]))
         ELSE R([m EXCEPT !.st = r.st, !.e = r.e], AMPointerNull))

\* DiskGroup::alloc_many
dg_alloc_many(m, count) ==
    IF m.st # "ok" THEN R(m, <<>>)
    ELSE Let(alloc_many(m.al, count), LAMBDA r :
         IF r.st = "ok"
         THEN R([m EXCEPT !.al = r.a, !.na = @ \cup {r.v[i] : i \in DOMAIN r.v}],
                [i \in DOMAIN r.v |-> AMPointerNew(r.v[i])])
         ELSE R([m EXCEPT !.al = r.a, !.st = r.st, !.e = r.e], <<>>))

\* ---- LinkedListGlobal (ondisk/linkedlist.rs) ----

LLGBlock(next, ents) == [t |-> "llg", next |-> next, ents |-> ents]

\* The header and entries a block yields when read as a list block: a block
\* of zeroes has a null next pointer and count 0.
LLGParse(c) == IF c.t = "llg" THEN c ELSE LLGBlock(AMPointerNull, <<>>)

LLGBlocksNeeded(len, ent_each) ==
    IF len = 0 THEN 1 ELSE (len + (ent_each - 1)) \div ent_each

\* LinkedListGlobal::read: follows next pointers, asserting each one valid.
RECURSIVE LLGRead(_, _)
LLGRead(disk, p) ==
    IF p.null THEN [st |-> "ok", v |-> <<>>]
    ELSE IF p.loc \notin DOMAIN disk THEN [st |-> "err", v |-> <<>>]
    ELSE IF ~validate(disk, p) THEN [st |-> "panic", v |-> <<>>]
    ELSE Let(LLGParse(disk[p.loc]), LAMBDA blk :
         Let(LLGRead(disk, blk.next), LAMBDA rest :
         IF rest.st # "ok" THEN rest ELSE [st |-> "ok", v |-> blk.ents \o rest.v]))

\* A faulty fill that starts every block at the head of the list.
LLGChunkFromHead(vals, i, ent_each) ==
    SubSeq(vals, 1, IF ent_each < Len(vals) THEN ent_each ELSE Len(vals))

\* The entries the fill loop puts in block i (1-based): it.next() up to
\* ent_each times.
LLGChunk(vals, i, ent_each) ==
    SubSeq(vals, (i - 1) * ent_each + 1,
           IF i * ent_each < Len(vals) THEN i * ent_each ELSE Len(vals))

\* First loop of write/write_preallocd: every block with its entries and a
\* next pointer whose checksum is still 0.
RECURSIVE LLGWriteBodies(_, _, _, _, _)
LLGWriteBodies(m, vals, ptrs, ent_each, i) ==
    IF i > Len(ptrs) \/ m.st # "ok" THEN m
    ELSE LLGWriteBodies(
            write_at(m, ptrs[i].loc,
                     LLGBlock(IF i < Len(ptrs) THEN ptrs[i + 1] ELSE AMPointerNull,
                              LLGChunk(vals, i, ent_each))),
            vals, ptrs, ent_each, i + 1)

\* A faulty second loop that links from the head: the next pointer of block k
\* takes the checksum of block k+1 before that block is written again.
RECURSIVE LLGLinkFrom(_, _, _, _)
LLGLinkFrom(m, ptrs, k, last) ==
    IF k > last \/ m.st # "ok" THEN m
    ELSE LLGLinkFrom(
            write_at(m, ptrs[k].loc,
                     [m.disk[ptrs[k].loc] EXCEPT !.next = update(m.disk, ptrs[k + 1])]),
            ptrs, k + 1, last)

LLGLinkHeadersForward(m, ptrs, i) == LLGLinkFrom(m, ptrs, 1, i)

\* Second loop, from the tail: the next pointer of block i takes the checksum
\* of block i+1 as it is on disk and the block is written again.
RECURSIVE LLGLinkHeaders(_, _, _)
LLGLinkHeaders(m, ptrs, i) ==
    IF i < 1 \/ m.st # "ok" THEN m
    ELSE LLGLinkHeaders(
            write_at(m, ptrs[i].loc,
                     [m.disk[ptrs[i].loc] EXCEPT !.next = update(m.disk, ptrs[i + 1])]),
            ptrs, i - 1)

\* LinkedListGlobal::write_preallocd
LLGWritePreallocd(m, vals, ptrs, ent_each) ==
    IF m.st # "ok" THEN R(m, AMPointerNull)
    ELSE IF Len(ptrs) # LLGBlocksNeeded(Len(vals), ent_each)
    THEN R(MPanic(m, "assert_eq blocks"), AMPointerNull)
    ELSE Let(LLGLinkHeaders(LLGWriteBodies(m, vals, ptrs, ent_each, 1), ptrs, Len(ptrs) - 1),
             LAMBDA m2 :
         R(m2, IF m2.st = "ok" THEN update(m2.disk, ptrs[1]) ELSE AMPointerNull))

\* The allocation loop of LinkedListGlobal::write, one block at a time.
RECURSIVE LLGAllocEach(_, _, _)
LLGAllocEach(m, blocks, got) ==
    IF m.st # "ok" \/ Len(got) = blocks THEN R(m, got)
    ELSE Let(dg_alloc_blocks(m, 1), LAMBDA r : LLGAllocEach(r.m, blocks, Append(got, r.v)))

\* LinkedListGlobal::write
LLGWrite(m, vals, ent_each) ==
    Let(LLGAllocEach(m, LLGBlocksNeeded(Len(vals), ent_each), <<>>), LAMBDA a :
    LLGWritePreallocd(a.m, vals, a.v, ent_each))

\* LinkedListGlobal::prealloc
LLGPrealloc(m, count, ent_each) == dg_alloc_many(m, LLGBlocksNeeded(count, ent_each))

\* ---- The allocator on disk (ondisk/allocator.rs) ----

\* A u64 of the extent list: the low 63 bits and the top bit.
U64(n, msb) == [n |-> n, msb |-> msb]

\* The values AllocatorObj::write and write_preallocd store: the total, then
\* one word per extent in key order, the top bit set for a used extent.
AllocatorValues(a) ==
    LET ks == SortedSeq(DOMAIN a.extents) IN
    <<U64(a.size, FALSE)>> \o
    [i \in DOMAIN ks |-> U64(a.extents[ks[i]].size, a.extents[ks[i]].used)]

\* A faulty read loop that keys every extent by its position in the list.
AllocatorInsertByIndex(ext, vals, i, start) ==
    [k \in 0..(Len(vals) - 2) |-> Extent(vals[k + 2].n, vals[k + 2].msb)]

\* The loop of AllocatorObj::read: extents are keyed by the running sum of
\* the sizes read so far.
RECURSIVE AllocatorInsertAll(_, _, _, _)
AllocatorInsertAll(ext, vals, i, start) ==
    IF i > Len(vals) THEN ext
    ELSE AllocatorInsertAll(MapInsert(ext, start, Extent(vals[i].n, vals[i].msb)),
                            vals, i + 1, start + vals[i].n)

\* AllocatorObj::read
AllocatorRead(disk, p) ==
    Let(LLGRead(disk, p), LAMBDA r :
    IF r.st # "ok" THEN [st |-> r.st, e |-> "llg", v |-> AllocatorNew(1)]
    ELSE IF r.v = <<>> THEN [st |-> "err", e |-> "NoAllocator", v |-> AllocatorNew(1)]
    ELSE [st |-> "ok", e |-> "",
          v |-> [size |-> r.v[1].n,
                 extents |-> AllocatorInsertAll(AllocatorNew(r.v[1].n).extents, r.v, 2, 0)]])

\* Allocator::prealloc: the loop that tops the block list up after the first
\* alloc_many changed the extent count.
RECURSIVE AllocatorPreallocLoop(_, _, _)
AllocatorPreallocLoop(m, res, per_block) ==
    IF m.st # "ok" THEN R(m, res)
    ELSE LET blocks == LLGBlocksNeeded(Cardinality(DOMAIN m.al.extents), per_block) IN
         IF Len(res) >= blocks THEN R(m, res)
         ELSE Let(dg_alloc_many(m, blocks - Len(res)), LAMBDA r :
              AllocatorPreallocLoop(r.m, res \o r.v, per_block))

\* Allocator::prealloc
AllocatorPrealloc(m, per_block) ==
    Let(dg_alloc_many(m, LLGBlocksNeeded(Cardinality(DOMAIN m.al.extents) + 1, per_block)),
        LAMBDA r : AllocatorPreallocLoop(r.m, r.v, per_block))

\* AllocatorObj::write_preallocd
AllocatorWritePreallocd(m, ptrs, per_block) ==
    IF m.st # "ok" THEN R(m, AMPointerNull)
    ELSE LLGWritePreallocd(m, AllocatorValues(m.al), ptrs, per_block)

\* ---- FSGroup (ondisk/fsgroup.rs) ----

\* FSGroup::new
FSGroupNew ==
    [t |-> "fsg", alloc |-> AMPointerNull, free_queue |-> AMPointerNull,
     journal |-> AMPointerNull, objects |-> AMPointerNull, directory |-> 0, txid |-> 0]

\* The group a block yields when read as one: in a block of zeroes every
\* pointer has padding 0 and the txid is 0.
FSGroupParse(c) == IF c.t = "fsg" THEN c ELSE FSGroupNew

\* FSGroup::read
FSGroupRead(disk, p) ==
    IF p.null THEN [st |-> "err", e |-> "NullPointer", v |-> FSGroupNew]
    ELSE IF p.loc \notin DOMAIN disk THEN [st |-> "err", e |-> "TODO", v |-> FSGroupNew]
    ELSE IF ~validate(disk, p) THEN [st |-> "err", e |-> "Checksum", v |-> FSGroupNew]
    ELSE [st |-> "ok", e |-> "", v |-> FSGroupParse(disk[p.loc])]

\* FSGroup::write: the block, then the checksum of the pointer to it.
FSGroupWrite(m, rg, p) ==
    Let(write_at(m, p.loc, rg), LAMBDA m1 :
    R(m1, IF m1.st = "ok" THEN update(m1.disk, p) ELSE p))

\* The loop of FSGroup::get_allocators over the entries of the list.
RECURSIVE AllocListLoad(_, _, _, _)
AllocListLoad(disk, ents, i, res) ==
    IF i > Len(ents) THEN [st |-> "ok", e |-> "", v |-> res]
    ELSE Let(AllocatorRead(disk, ents[i].allocator), LAMBDA a :
         IF a.st # "ok" THEN [st |-> a.st, e |-> a.e, v |-> res]
         ELSE AllocListLoad(disk, ents, i + 1, MapInsert(res, ents[i].disk_id, a.v)))

\* FSGroup::get_allocators: a map from disk id to allocator
get_allocators(disk, rg) ==
    Let(LLGRead(disk, rg.alloc), LAMBDA l :
    IF l.st # "ok" THEN [st |-> l.st, e |-> "llg", v |-> <<>>]
    ELSE AllocListLoad(disk, l.v, 1, <<>>))

\* FSGroup::get_free_queue: entries grouped by txid, in list order
get_free_queue(disk, rg) ==
    Let(LLGRead(disk, rg.free_queue), LAMBDA l :
    LET IdxOf(x) == {i \in DOMAIN l.v : l.v[i].txid = x}
        Pick(x) == LET s == SortedSeq(IdxOf(x)) IN [k \in DOMAIN s |-> l.v[s[k]].block]
    IN IF l.st # "ok" THEN [st |-> l.st, e |-> "llg", v |-> <<>>]
       ELSE [st |-> "ok", e |-> "",
             v |-> [x \in {l.v[i].txid : i \in DOMAIN l.v} |-> Pick(x)]])

\* The entries FSGroup::write_free_queue stores: by txid, then in queue order.
RECURSIVE FreeQueueEntries(_, _)
FreeQueueEntries(fq, txids) ==
    IF txids = <<>> THEN <<>>
    ELSE [i \in DOMAIN fq[Head(txids)] |-> [txid |-> Head(txids), block |-> fq[Head(txids)][i]]]
         \o FreeQueueEntries(fq, Tail(txids))

\* FSGroup::write_free_queue
write_free_queue(m, rg) ==
    Let(LLGWrite(m, FreeQueueEntries(m.fq, SortedSeq(DOMAIN m.fq)), EntEachFree), LAMBDA r :
    R(r.m, IF r.m.st = "ok" THEN [rg EXCEPT !.free_queue = r.v] ELSE rg))

\* A faulty order that writes the allocator out before the blocks of the
\* alloc list are taken.
WriteAllocatorsEarly(m, rg, devid, per_block) ==
    Let(AllocatorPrealloc(m, per_block), LAMBDA pa :
    Let(AllocatorWritePreallocd(pa.m, pa.v, per_block), LAMBDA wa :
    Let(LLGPrealloc(wa.m, 1, EntEachAlloc), LAMBDA pl :
    Let(LLGWritePreallocd(pl.m, <<[disk_id |-> devid, allocator |-> wa.v]>>,
                          pl.v, EntEachAlloc), LAMBDA wl :
    R(wl.m, IF wl.m.st = "ok" THEN [rg EXCEPT !.alloc = wl.v] ELSE rg)))))

\* FSGroup::write_allocators for the one allocator of the one disk: blocks
\* for the allocator, blocks for the list, the allocator, the list.
\* per_block is the number of extent words a list block holds.
WriteAllocatorsPer(m, rg, devid, per_block) ==
    Let(AllocatorPrealloc(m, per_block), LAMBDA pa :
    Let(LLGPrealloc(pa.m, 1, EntEachAlloc), LAMBDA pl :
    Let(AllocatorWritePreallocd(pl.m, pa.v, per_block), LAMBDA wa :
    Let(LLGWritePreallocd(wa.m, <<[disk_id |-> devid, allocator |-> wa.v]>>,
                          pl.v, EntEachAlloc), LAMBDA wl :
    R(wl.m, IF wl.m.st = "ok" THEN [rg EXCEPT !.alloc = wl.v] ELSE rg)))))

\* With the 4096-byte block a list block holds EntEachU64 extent words.
write_allocators(m, rg, devid) == WriteAllocatorsPer(m, rg, devid, EntEachU64)

\* ---- Geometry (ondisk/geometry.rs) and Superblock (ondisk/superblock.rs) ----

\* Geometry::new with device_ids[0] set
GeometryOf(devid) == [t |-> "geo", device_ids |-> <<devid>>, flavor |-> "Single"]

\* AMFeatures::current_set
current_set == {"Base"}

\* SIGNATURE, the magic in the first 8 bytes of a superblock.
SIGNATURE == "amosAMFS"

\* Superblock::new
SuperblockNew(devid) ==
    [t |-> "sb", signature |-> SIGNATURE, devid |-> devid, features |-> current_set,
     geometries |-> AMPointerNull, checksum |-> NoSum,
     latest_root |-> 0, rootnodes |-> [i \in 0..(RootSlots - 1) |-> AMPointerNull]]

\* The CRC32 of a superblock with its checksum field zeroed.
SuperblockSum(sb) == Crc([sb EXCEPT !.checksum = NoSum])

\* Superblock::verify_checksum
verify_checksum(sb) == sb.checksum = SuperblockSum(sb)

\* Superblock::update_checksum
update_checksum(sb) == [sb EXCEPT !.checksum = SuperblockSum(sb)]

\* Superblock::write: the checksum is brought up to date, in memory too, and
\* the block is written.
SuperblockWrite(m, sb, loc) == write_at(m, loc, update_checksum(sb))

\* An absent copy: the None of [Option<Superblock>; 4].
NoSuperblock == [t |-> "none"]

\* A faulty read that tests the devid before the checksum.
SuperblockReadDevidFirst(disk, loc) ==
    Let(disk[loc], LAMBDA c :
    IF c.t # "sb" \/ c.signature # SIGNATURE
    THEN [st |-> "err", e |-> "Signature", v |-> NoSuperblock]
    ELSE IF c.devid = 0 THEN [st |-> "err", e |-> "DiskID", v |-> NoSuperblock]
    ELSE IF ~verify_checksum(c) THEN [st |-> "err", e |-> "Checksum", v |-> NoSuperblock]
    ELSE [st |-> "ok", e |-> "", v |-> c])

\* Superblock::read: the three tests in their order.  A block that holds
\* something else than a superblock (zeroes, a geometry, a list, a group)
\* does not start with the magic; a superblock whose rewrite was cut short
\* keeps the magic of the copy it replaces and fails the checksum.
SuperblockRead(disk, loc) ==
    Let(disk[loc], LAMBDA c :
    IF c.t = "torn" THEN [st |-> "err", e |-> "Checksum", v |-> NoSuperblock]
    ELSE IF c.t # "sb" \/ c.signature # SIGNATURE
    THEN [st |-> "err", e |-> "Signature", v |-> NoSuperblock]
    ELSE IF ~verify_checksum(c) THEN [st |-> "err", e |-> "Checksum", v |-> NoSuperblock]
    ELSE IF c.devid = 0 THEN [st |-> "err", e |-> "DiskID", v |-> NoSuperblock]
    ELSE [st |-> "ok", e |-> "", v |-> c])

\* A test that accepts a bitmap as soon as one of its bits is supported.
TestFeaturesAny(sb, features) == sb.features \cap features # {}

\* Superblock::test_features
test_features(sb, features) == sb.features \subseteq features

\* Superblock::get_group: the ring is scanned forward from latest_root.
RECURSIVE GetGroupFrom(_, _, _)
GetGroupFrom(sb, disk, i) ==
    IF i >= RootSlots
    THEN [st |-> "err", e |-> "NoRootgroup", v |-> FSGroupNew, p |-> AMPointerNull]
    ELSE Let(sb.rootnodes[(sb.latest_root + i) % RootSlots], LAMBDA p :
         Let(FSGroupRead(disk, p), LAMBDA r :
         IF r.st = "ok" THEN [st |-> "ok", e |-> "", v |-> r.v, p |-> p]
         ELSE GetGroupFrom(sb, disk, i + 1)))

get_group(sb, disk) == GetGroupFrom(sb, disk, 0)

\* A fold that keeps the first copy with a readable group whatever the txid
\* of the later ones.
GetSuperblockFoldFirst(sbs, disk, i, acc) ==
    LET readable == {j \in i..Len(sbs) : sbs[j].t = "sb" /\ get_group(sbs[j], disk).st = "ok"}
    IN IF acc.some \/ readable = {} THEN acc
       ELSE [some |-> TRUE, max |-> get_group(sbs[SetMin(readable)], disk).v.txid, sb |-> sbs[SetMin(readable)]]

\* The fold of AMFS::get_superblock: the first copy with a readable group is
\* kept until a later copy has a group of strictly greater txid.
RECURSIVE GetSuperblockFold(_, _, _, _)
GetSuperblockFold(sbs, disk, i, acc) ==
    IF i > Len(sbs) THEN acc
    ELSE IF sbs[i].t # "sb" THEN GetSuperblockFold(sbs, disk, i + 1, acc)
    ELSE Let(get_group(sbs[i], disk), LAMBDA g :
         IF g.st = "ok" /\ (~acc.some \/ g.v.txid > acc.max)
         THEN GetSuperblockFold(sbs, disk, i + 1, [some |-> TRUE, max |-> g.v.txid, sb |-> sbs[i]])
         ELSE GetSuperblockFold(sbs, disk, i + 1, acc))

\* AMFS::get_superblock
get_superblock(sbs, disk) ==
    Let(GetSuperblockFold(sbs, disk, 1, [some |-> FALSE, max |-> 0, sb |-> NoSuperblock]),
        LAMBDA acc :
    IF acc.some THEN [st |-> "ok", e |-> "", v |-> acc.sb]
    ELSE [st |-> "err", e |-> "NoFSGroup", v |-> NoSuperblock])

\* AMFS::get_root_group
get_root_group(sbs, disk) ==
    Let(get_superblock(sbs, disk), LAMBDA s :
    IF s.st # "ok" THEN [st |-> "err", e |-> s.e, v |-> FSGroupNew, p |-> AMPointerNull]
    ELSE get_group(s.v, disk))

\* ---- mkfs_single (operations/mkfs.rs) ----

\* The four mark_used calls on the header locations.
RECURSIVE MkfsMarkHeaders(_, _)
MkfsMarkHeaders(m, i) ==
    IF i > 4 \/ m.st # "ok" THEN m
    ELSE Let(mark_used(m.al, get_header_locs[i], 1), LAMBDA r :
         MkfsMarkHeaders([m EXCEPT !.al = r.a, !.st = r.st, !.e = r.e], i + 1))

\* One geometry block per superblock copy, each allocated and written.
RECURSIVE MkfsGeometries(_, _, _, _)
MkfsGeometries(m, devid, i, got) ==
    IF i > 4 \/ m.st # "ok" THEN R(m, got)
    ELSE Let(dg_alloc_blocks(m, 1), LAMBDA a :
         Let(write_at(a.m, a.v.loc, GeometryOf(devid)), LAMBDA m1 :
         MkfsGeometries(m1, devid, i + 1,
                        Append(got, IF m1.st = "ok" THEN update(m1.disk, a.v) ELSE a.v))))

\* The four Superblock::write calls.
RECURSIVE MkfsSuperblocks(_, _, _)
MkfsSuperblocks(m, sbs, i) ==
    IF i > 4 \/ m.st # "ok" THEN m
    ELSE MkfsSuperblocks(SuperblockWrite(m, sbs[i], get_header_locs[i]), sbs, i + 1)

\* mkfs_single on a disk of DiskSize blocks: the world it leaves behind.
mkfs_single(devid) ==
    Let(World([b \in 0..(DiskSize - 1) |-> ZeroBlock], AllocatorNew(DiskSize), <<>>, <<>>, 0),
        LAMBDA m0 :
    Let(MkfsGeometries(MkfsMarkHeaders(m0, 1), devid, 1, <<>>), LAMBDA g :
    Let(dg_alloc_blocks(g.m, 1), LAMBDA o :
    Let(dg_alloc_blocks(o.m, 1), LAMBDA rp :
    Let(write_allocators(rp.m, [FSGroupNew EXCEPT !.objects = o.v], devid), LAMBDA wa :
    Let(FSGroupWrite(wa.m, wa.v, rp.v), LAMBDA wr :
    MkfsSuperblocks(wr.m,
                    [i \in 1..4 |->
                       [SuperblockNew(devid) EXCEPT !.geometries = g.v[i],
                                                    !.rootnodes[0] = wr.v]],
                    1)))))))

\* ---- AMFS::open (fs.rs) ----

\* A faulty load that keeps every copy, whatever Superblock::read says.
LoadSuperblocksUnchecked(disk) ==
    [i \in 1..4 |-> IF disk[get_header_locs[i]].t = "sb" THEN disk[get_header_locs[i]]
                    ELSE NoSuperblock]

\* AMFS::load_superblocks: the copies that read back, None for the others.
load_superblocks(disk) ==
    [i \in 1..4 |-> Let(SuperblockRead(disk, get_header_locs[i]), LAMBDA r :
                       IF r.st = "ok" THEN r.v ELSE NoSuperblock)]

\* AMFS::build_diskgroups for geometry 0: the first copy with a non-null
\* geometry pointer decides; Geometry::read asserts that pointer valid.
RECURSIVE BuildDiskgroup(_, _, _)
BuildDiskgroup(sbs, disk, i) ==
    IF i > Len(sbs) THEN [st |-> "ok", some |-> FALSE]
    ELSE IF sbs[i].t # "sb" \/ sbs[i].geometries.null THEN BuildDiskgroup(sbs, disk, i + 1)
    ELSE IF sbs[i].geometries.loc \notin DOMAIN disk THEN BuildDiskgroup(sbs, disk, i + 1)
    ELSE IF ~validate(disk, sbs[i].geometries) THEN [st |-> "panic", some |-> FALSE]
    ELSE IF disk[sbs[i].geometries.loc].device_ids[1] # sbs[i].devid
    THEN [st |-> "err", some |-> FALSE]
    ELSE [st |-> "ok", some |-> TRUE]

\* The handle AMFS::open builds, or how it failed.
NoHandle(st, e) ==
    [st |-> st, e |-> e, sbs |-> <<>>, devid |-> 0, al |-> AllocatorNew(1), fq |-> <<>>,
     jn |-> <<>>, objects |-> AMPointerNull, cur_txid |-> 0]

open(disk) ==
    Let(load_superblocks(disk), LAMBDA sbs :
    Let(BuildDiskgroup(sbs, disk, 1), LAMBDA dg :
    Let(get_root_group(sbs, disk), LAMBDA rg :
    Let(get_allocators(disk, rg.v), LAMBDA als :
    Let(get_free_queue(disk, rg.v), LAMBDA fq :
    Let(get_superblock(sbs, disk), LAMBDA sb :
    LET valid == {i \in 1..4 : sbs[i].t = "sb"}
        devid == sbs[SetMin(valid)].devid
    IN IF valid = {} THEN NoHandle("err", "NoSuperblock")
       ELSE IF dg.st = "panic" THEN NoHandle("panic", "geometry")
       ELSE IF dg.st = "err" THEN NoHandle("err", "UnknownDevId")
       ELSE IF ~dg.some THEN NoHandle("err", "NoFSGroup")
       ELSE IF rg.st # "ok" THEN NoHandle("err", rg.e)
       ELSE IF als.st # "ok" THEN NoHandle(als.st, als.e)
       ELSE IF devid \notin DOMAIN als.v THEN NoHandle("err", "NoAllocator")
       ELSE IF fq.st # "ok" THEN NoHandle(fq.st, fq.e)
       ELSE IF ~test_features(sb.v, current_set) THEN NoHandle("panic", "features")
       ELSE [st |-> "up", e |-> "", sbs |-> sbs, devid |-> devid, al |-> als.v[devid],
             fq |-> fq.v, jn |-> <<>>, objects |-> rg.v.objects,
             cur_txid |-> rg.v.txid + 1]))))))

\* ---- Data blocks and byte reads and writes (ondisk/pointer.rs) ----
\*
\* Bytes are small naturals; -1 stands for a byte of a block that holds some
\* other structure (a stale block handed out again after a remount).  A u64
\* that wrapped below zero is kept as the negative integer it is congruent
\* to, so that a negative number is a huge unsigned one.

\* a > b on u64
UGt(a, b) == IF (a < 0) = (b < 0) THEN a > b ELSE a < 0

ZeroBytes == [i \in 1..BLOCK_SIZE |-> 0]

\* The bytes of a block.
BlockBytes(c) ==
    IF c.t = "data" THEN c.b
    ELSE IF c.t = "zero" THEN ZeroBytes
    ELSE [i \in 1..BLOCK_SIZE |-> -1]

\* The block made of the given bytes.
DataBlock(b) == IF b = ZeroBytes THEN ZeroBlock ELSE [t |-> "data", b |-> b]

\* AMPointerGlobal::read of size bytes at start: whole blocks go straight to
\* the disk, anything else must lie inside one block and not end on its edge.
\* A start below zero stands for one that wrapped around: its block is far
\* beyond the disk.
PtrRead(disk, p, start, size) ==
    LET blk == IF start < 0 THEN -1 ELSE p.loc + (start \div BLOCK_SIZE)
        end == start + size
    IN IF p.null THEN [st |-> "panic", e |-> "null pointer", v |-> <<>>]
       ELSE IF blk \notin DOMAIN disk THEN [st |-> "err", e |-> "TODO", v |-> <<>>]
       ELSE IF size = BLOCK_SIZE /\ start % BLOCK_SIZE = 0
       THEN [st |-> "ok", e |-> "", v |-> BlockBytes(disk[blk])]
       ELSE IF (start \div BLOCK_SIZE) # (end \div BLOCK_SIZE) \/ (start < 0) # (end < 0)
       THEN [st |-> "panic", e |-> "todo", v |-> <<>>]
       ELSE [st |-> "ok", e |-> "",
             v |-> SubSeq(BlockBytes(disk[blk]), (start % BLOCK_SIZE) + 1, end % BLOCK_SIZE)]

\* AMPointerGlobal::read_vec: the whole block, as it is.
read_vec(disk, p) ==
    IF p.null THEN [st |-> "panic", e |-> "null pointer", v |-> ZeroBlock]
    ELSE IF p.loc \notin DOMAIN disk THEN [st |-> "err", e |-> "TODO", v |-> ZeroBlock]
    ELSE [st |-> "ok", e |-> "", v |-> disk[p.loc]]

\* AMPointerGlobal::write of data (size bytes) at start, the mirror of read:
\* a partial write reads the block, patches it and writes it back whole.
PtrWrite(m, p, start, data) ==
    LET size == Len(data)
        blk == IF start < 0 THEN -1 ELSE p.loc + (start \div BLOCK_SIZE)
        end == start + size
        so == start % BLOCK_SIZE
        old == BlockBytes(m.disk[blk])
    IN IF m.st # "ok" THEN m
       ELSE IF p.null THEN MPanic(m, "null pointer")
       ELSE IF size = BLOCK_SIZE /\ so = 0 THEN write_at(m, blk, DataBlock(data))
       ELSE IF blk \notin DOMAIN m.disk THEN MErr(m, "TODO")
       ELSE IF (start \div BLOCK_SIZE) # (end \div BLOCK_SIZE) \/ (start < 0) # (end < 0)
       THEN MPanic(m, "todo")
       ELSE write_at(m, blk,
                DataBlock([i \in 1..BLOCK_SIZE |->
                             IF i > so /\ i <= so + size THEN data[i - so] ELSE old[i]]))

\* ---- The object set block (ondisk/object.rs) ----
\*
\* After its 16-byte header the block is a row of 8-byte words.  A fragment
\* is four of them (size, offset, location, and the word holding checksum,
\* device, geometry, length and padding); a word that reads 0 ends an
\* object.  The words are kept up to the last non-zero one.

WInt(n) == [v |-> n, s |-> NoSum]

WordAt(w, pos) == IF pos >= 1 /\ pos <= Len(w) THEN w[pos] ELSE WInt(0)

\* u64::from_le_bytes(..) == 0
IsZeroWord(x) == x.v = 0

\* Fragment::to_bytes
FragmentToWords(f) ==
    <<WInt(f.size), WInt(f.offset), WInt(f.pointer.loc),
      [v |-> IF f.pointer.null THEN 1 ELSE -1, s |-> f.pointer.sum]>>

\* Fragment::from_bytes on the four words at pos
FragmentFromWords(w, pos) ==
    [size |-> WordAt(w, pos).v, offset |-> WordAt(w, pos + 1).v,
     pointer |-> [loc |-> WordAt(w, pos + 2).v, sum |-> WordAt(w, pos + 3).s,
                  null |-> WordAt(w, pos + 3).v >= 0]]

\* Fragment::new
Fragment(size, offset, pointer) == [size |-> size, offset |-> offset, pointer |-> pointer]

RECURSIVE TrimWords(_)
TrimWords(w) ==
    IF w = <<>> THEN w
    ELSE IF IsZeroWord(w[Len(w)]) /\ w[Len(w)].s = NoSum THEN TrimWords(SubSeq(w, 1, Len(w) - 1))
    ELSE w

\* The block an object list is stored as.
ObjectListBlock(start_idx, n_entries, w) ==
    IF start_idx = 0 /\ n_entries = 0 /\ TrimWords(w) = <<>> THEN ZeroBlock
    ELSE [t |-> "objs", start_idx |-> start_idx, n_entries |-> n_entries, w |-> TrimWords(w)]

\* ObjectListHeader::from_bytes and the words behind it.
ObjectListParse(c) ==
    IF c.t = "objs" THEN c ELSE [t |-> "objs", start_idx |-> 0, n_entries |-> 0, w |-> <<>>]

\* The inner loop shared by get_object and set_object: step over fragments
\* up to and including the terminating zero word, counting the fragments;
\* reading past the block is an out-of-range slice.
RECURSIVE SkipObject(_, _, _)
SkipObject(w, pos, n) ==
    IF pos > ObjListWords THEN [ok |-> FALSE, pos |-> pos, n |-> n]
    ELSE IF IsZeroWord(WordAt(w, pos)) THEN [ok |-> TRUE, pos |-> pos + 1, n |-> n]
    ELSE SkipObject(w, pos + 4, n + 1)

\* get_object's "while idx < id": idx advances once per FRAGMENT stepped
\* over.  Past the last stored word only zeroes follow, idx stands still and
\* the scan runs off the block.
RECURSIVE GetObjectSeek(_, _, _, _)
GetObjectSeek(w, pos, idx, id) ==
    IF idx >= id THEN [ok |-> TRUE, pos |-> pos]
    ELSE IF pos > Len(w) THEN [ok |-> FALSE, pos |-> pos]
    ELSE Let(SkipObject(w, pos, 0), LAMBDA s :
         IF ~s.ok THEN [ok |-> FALSE, pos |-> pos] ELSE GetObjectSeek(w, s.pos, idx + s.n, id))

\* The fragments from pos up to the terminating zero word.
RECURSIVE ReadFrags(_, _)
ReadFrags(w, pos) ==
    IF pos > ObjListWords THEN [ok |-> FALSE, v |-> <<>>]
    ELSE IF IsZeroWord(WordAt(w, pos)) THEN [ok |-> TRUE, v |-> <<>>]
    ELSE IF pos + 3 > ObjListWords THEN [ok |-> FALSE, v |-> <<>>]
    ELSE Let(ReadFrags(w, pos + 4), LAMBDA r :
         [ok |-> r.ok, v |-> <<FragmentFromWords(w, pos)>> \o r.v])

\* ObjectSet::get_object: Ok(Some(object)), Ok(None), an error or a panic.
get_object(disk, ptr, id) ==
    Let(read_vec(disk, ptr), LAMBDA b :
    Let(ObjectListParse(b.v), LAMBDA l :
    Let(GetObjectSeek(l.w, 1, l.start_idx, id), LAMBDA s :
    Let(ReadFrags(l.w, s.pos), LAMBDA f :
    IF b.st # "ok" THEN [st |-> b.st, e |-> b.e, some |-> FALSE, frags |-> <<>>]
    ELSE IF ~(l.start_idx <= id) THEN [st |-> "ok", e |-> "", some |-> FALSE, frags |-> <<>>]
    ELSE IF ~s.ok \/ ~f.ok
    THEN [st |-> "panic", e |-> "slice", some |-> FALSE, frags |-> <<>>]
    ELSE [st |-> "ok", e |-> "", some |-> TRUE, frags |-> f.v]))))

\* set_object's "while idx < id": idx advances once per OBJECT stepped over.
RECURSIVE SetObjectSeek(_, _, _, _)
SetObjectSeek(w, pos, idx, id) ==
    IF idx >= id THEN [ok |-> TRUE, pos |-> pos]
    ELSE Let(SkipObject(w, pos, 0), LAMBDA s :
         IF ~s.ok THEN [ok |-> FALSE, pos |-> pos] ELSE SetObjectSeek(w, s.pos, idx + 1, id))

\* slice::copy_within(i..j, dest) on the words
CopyWithin(w, i, j, dest) ==
    LET n == IF Len(w) > dest + (j - i) - 1 THEN Len(w) ELSE dest + (j - i) - 1 IN
    [k \in 1..n |-> IF k >= dest /\ k < dest + (j - i) THEN WordAt(w, k - dest + i) ELSE WordAt(w, k)]

\* blk[pos..].copy_from_slice(ws) on the words
WriteWords(w, pos, ws) ==
    LET n == IF Len(w) > pos + Len(ws) - 1 THEN Len(w) ELSE pos + Len(ws) - 1 IN
    [k \in 1..n |-> IF k >= pos /\ k < pos + Len(ws) THEN ws[k - pos + 1] ELSE WordAt(w, k)]

RECURSIVE FragsToWords(_)
FragsToWords(frags) ==
    IF frags = <<>> THEN <<>> ELSE FragmentToWords(Head(frags)) \o FragsToWords(Tail(frags))

\* The words of the block after set_object placed the object, and the new
\* n_entries; ok is FALSE where the source panics (todo!, assert_lt!, a
\* slice out of range, or obj_size - slot_size below zero in a build that
\* checks overflow).
SetObjectWords(l, id, frags, bld) ==
    Let(l.w, LAMBDA w :
    Let(SetObjectSeek(w, 1, l.start_idx, id), LAMBDA s :
    Let(s.pos, LAMBDA pos :
    Let(SkipObject(w, pos, 0), LAMBDA old :
    Let(old.pos, LAMBDA i :
    Let(SetObjectSeek(w, i, id + 1, l.start_idx + l.n_entries - 1), LAMBDA j :
    LET last == l.start_idx + l.n_entries
        obj_size == 4 * Len(frags) + 1
        size_diff == obj_size - (i - pos)
        placed(ws) == WriteWords(ws, pos, FragsToWords(frags) \o <<WInt(0)>>)
        bad == [ok |-> FALSE, n |-> l.n_entries, w |-> w]
    IN IF ~s.ok THEN bad
       ELSE IF id = last
       THEN IF (pos - 1) + obj_size < ObjListWords
            THEN [ok |-> TRUE, n |-> l.n_entries + 1, w |-> placed(w)]
            ELSE bad
       ELSE IF ~(id < last) \/ ~old.ok THEN bad
       ELSE IF size_diff = 0 THEN [ok |-> TRUE, n |-> l.n_entries, w |-> placed(w)]
       ELSE IF size_diff < 0 /\ bld = "debug" THEN bad
       ELSE IF ~j.ok \/ (j.pos - 1) + size_diff > ObjListWords THEN bad
       ELSE [ok |-> TRUE, n |-> l.n_entries,
             w |-> placed(CopyWithin(w, i, j.pos, i + size_diff))]))))))

\* ---- Allocation and release through the handle (fs.rs) ----

\* AMFS::alloc_blocks: the pointer takes the checksum of whatever the block
\* holds, and the allocation is journalled.
fs_alloc_blocks(m, n) ==
    Let(dg_alloc_blocks(m, n), LAMBDA a :
    IF a.m.st # "ok" THEN a
    ELSE Let(update(a.m.disk, a.v), LAMBDA p :
         R([a.m EXCEPT !.jn = Append(@, [k |-> "Alloc", p |-> p])], p)))

\* DiskGroup::alloc_bytes: one block per started BLOCK_SIZE bytes, and one
\* block even for 0 bytes.
RECURSIVE DgAllocBytes(_, _, _)
DgAllocBytes(m, size_rem, got) ==
    IF m.st # "ok" THEN R(m, got)
    ELSE Let(dg_alloc_blocks(m, 1), LAMBDA a :
         LET size_frag == IF size_rem > BLOCK_SIZE THEN BLOCK_SIZE ELSE size_rem
             got1 == Append(got, Fragment(size_frag, 0, a.v))
         IN IF a.m.st # "ok" THEN R(a.m, got)
            ELSE IF size_rem <= BLOCK_SIZE THEN R(a.m, got1)
            ELSE DgAllocBytes(a.m, size_rem - BLOCK_SIZE, got1))

\* AMFS::alloc_bytes: checksums are taken, nothing is journalled.
fs_alloc_bytes(m, n) ==
    Let(DgAllocBytes(m, n, <<>>), LAMBDA r :
    IF r.m.st # "ok" THEN r
    ELSE R(r.m, [i \in DOMAIN r.v |-> [r.v[i] EXCEPT !.pointer = update(r.m.disk, @)]]))

\* A faulty free that journals the block and forgets to queue it.
FreeNotQueued(m, ptr) ==
    IF m.st # "ok" THEN m ELSE [m EXCEPT !.jn = Append(@, [k |-> "Free", p |-> ptr])]

\* A faulty free that also releases the block in the allocator at once.
FreeReleased(m, ptr) ==
    IF m.st # "ok" THEN m
    ELSE [m EXCEPT !.jn = Append(@, [k |-> "Free", p |-> ptr]),
                   !.fq = MapInsert(@, m.cur_txid,
                                    IF m.cur_txid \in DOMAIN @ THEN Append(@[m.cur_txid], ptr)
                                    ELSE <<ptr>>),
                   !.al = IF free(m.al, ptr.loc).st = "ok" THEN free(m.al, ptr.loc).a ELSE @]

\* AMFS::free: journalled and queued under the current txid; the allocator
\* is not touched.
fs_free(m, ptr) ==
    IF m.st # "ok" THEN m
    ELSE [m EXCEPT !.jn = Append(@, [k |-> "Free", p |-> ptr]),
                   !.fq = MapInsert(@, m.cur_txid,
                                    IF m.cur_txid \in DOMAIN @ THEN Append(@[m.cur_txid], ptr)
                                    ELSE <<ptr>>)]

\* A faulty realloc that hands the old block back.
ReallocInPlace(m, ptr) ==
    IF m.st # "ok" THEN R(m, AMPointerNull)
    ELSE IF ptr.null THEN R(MPanic(m, "null pointer"), AMPointerNull)
    ELSE R(m, ptr)

\* AMFS::realloc: a new block, a copy of the old one into it, the old one
\* freed.  The pointer returned still carries the checksum taken before the
\* copy.
fs_realloc(m, ptr) ==
    IF m.st # "ok" THEN R(m, AMPointerNull)
    ELSE IF ptr.null THEN R(MPanic(m, "null pointer"), AMPointerNull)
    ELSE Let(fs_alloc_blocks(m, 1), LAMBDA a :
         Let(read_vec(a.m.disk, ptr), LAMBDA c :
         IF a.m.st # "ok" THEN a
         ELSE IF c.st # "ok" THEN R([a.m EXCEPT !.st = c.st, !.e = c.e], AMPointerNull)
         ELSE R(fs_free(write_at(a.m, a.v.loc, c.v), ptr), a.v)))

\* A faulty set_object that writes the patched list over the old block.
SetObjectInPlace(m, ptr, id, frags, bld) ==
    Let(read_vec(m.disk, ptr), LAMBDA b :
    Let(ObjectListParse(b.v), LAMBDA l :
    Let(SetObjectWords(l, id, frags, bld), LAMBDA sw :
    Let(write_at(m, ptr.loc, ObjectListBlock(l.start_idx, sw.n, sw.w)), LAMBDA m1 :
    IF m.st # "ok" THEN R(m, ptr)
    ELSE IF b.st # "ok" THEN R([m EXCEPT !.st = b.st, !.e = b.e], ptr)
    ELSE IF ~(l.start_idx <= id) THEN R(MPanic(m, "todo"), ptr)
    ELSE IF ~sw.ok THEN R(MPanic(m, "set_object"), ptr)
    ELSE IF m1.st # "ok" THEN R(m1, ptr)
    ELSE R(m1, update(m1.disk, ptr))))))

\* ObjectSet::set_object: the list block is patched in memory, reallocated,
\* written to its new place, and the new pointer is returned.
set_object(m, ptr, id, frags, bld) ==
    Let(read_vec(m.disk, ptr), LAMBDA b :
    Let(ObjectListParse(b.v), LAMBDA l :
    Let(SetObjectWords(l, id, frags, bld), LAMBDA sw :
    Let(fs_realloc(m, ptr), LAMBDA r :
    Let(write_at(r.m, r.v.loc, ObjectListBlock(l.start_idx, sw.n, sw.w)), LAMBDA m1 :
    IF m.st # "ok" THEN R(m, ptr)
    ELSE IF b.st # "ok" THEN R([m EXCEPT !.st = b.st, !.e = b.e], ptr)
    ELSE IF ~(l.start_idx <= id) THEN R(MPanic(m, "todo"), ptr)
    ELSE IF ~sw.ok THEN R(MPanic(m, "set_object"), ptr)
    ELSE IF m1.st # "ok" THEN R(m1, ptr)
    ELSE R(m1, update(m1.disk, r.v)))))))

\* ---- Object (ondisk/object.rs) ----

\* Object::size
RECURSIVE ObjectSize(_)
ObjectSize(frags) == IF frags = <<>> THEN 0 ELSE Head(frags).size + ObjectSize(Tail(frags))

\* Object::read into a buffer of Len(buf) bytes: the loop over the fragments.
RECURSIVE ObjectReadLoop(_, _, _, _, _, _, _)
ObjectReadLoop(disk, frags, i, frag_start, start, buf, res) ==
    LET end == start + Len(buf)
        f == frags[i]
        frag_end == frag_start + f.size
        frag_read_start == IF frag_start < start THEN start - frag_start ELSE 0
        buf_read_start == IF frag_start < start THEN 0 ELSE frag_start - start
        read_len == IF frag_start < start /\ UGt(frag_end, end) THEN end - start
                    ELSE IF frag_start < start THEN frag_end - start
                    ELSE IF UGt(frag_end, end) THEN end - frag_start
                    ELSE f.size
    IN Let(PtrRead(disk, f.pointer, frag_read_start, read_len), LAMBDA r :
       LET filled == [k \in 1..Len(buf) |->
                        IF k > buf_read_start /\ k <= buf_read_start + read_len
                        THEN r.v[k - buf_read_start] ELSE buf[k]]
       IN
       IF i > Len(frags) \/ frag_start >= end THEN [st |-> "ok", e |-> "", n |-> res, data |-> buf]
       ELSE IF ~UGt(frag_end, start)
       THEN ObjectReadLoop(disk, frags, i + 1, frag_end, start, buf, res)
       ELSE IF read_len < 0 \/ buf_read_start + read_len > Len(buf)
       THEN [st |-> "panic", e |-> "slice", n |-> res, data |-> buf]
       ELSE IF r.st # "ok" THEN [st |-> r.st, e |-> r.e, n |-> res, data |-> buf]
       ELSE ObjectReadLoop(disk, frags, i + 1, frag_end, start, filled, res + read_len))

\* Object::read into a zeroed buffer of len bytes
ObjectRead(disk, frags, start, len) ==
    ObjectReadLoop(disk, frags, 1, 0, start, [k \in 1..len |-> 0], 0)

\* Object::write: every fragment that ends after start is reallocated and
\* written at start - pos.  For a fragment that begins after start the
\* subtraction goes below zero: a panic where overflow is checked, a wrapped
\* offset otherwise.
RECURSIVE ObjectWriteLoop(_, _, _, _, _, _, _, _)
ObjectWriteLoop(m, frags, i, pos, res, start, data, bld) ==
    LET f == frags[i]
        slice_start == start - pos
        slice_end == slice_start + Len(data)
        out(mm) == R(mm, [frags |-> frags, res |-> res])
    IN Let(fs_realloc(m, f.pointer), LAMBDA r :
       Let(PtrWrite(r.m, r.v, slice_start, data), LAMBDA m1 :
       IF m.st # "ok" \/ i > Len(frags) THEN out(m)
       ELSE IF ~UGt(pos + f.size, start)
       THEN ObjectWriteLoop(m, frags, i + 1, pos + f.size, res, start, data, bld)
       ELSE IF UGt(pos, start) /\ bld = "debug" THEN out(MPanic(m, "overflow"))
       ELSE IF UGt(slice_end, f.size) THEN out(MPanic(m, "todo"))
       ELSE IF m1.st # "ok" THEN out(m1)
       ELSE ObjectWriteLoop(m1, [frags EXCEPT ![i].pointer = update(m1.disk, r.v)],
                            i + 1, pos + f.size, res + Len(data), start, data, bld)))

\* The shrinking loop of Object::truncate.
RECURSIVE TruncateShrink(_, _, _)
TruncateShrink(frags, cur_size, size) ==
    IF frags = <<>> THEN frags
    ELSE LET n == Len(frags)
             lf == frags[n]
         IN IF UGt(cur_size - lf.size, size)
            THEN TruncateShrink(SubSeq(frags, 1, n - 1), cur_size - lf.size, size)
            ELSE IF cur_size - lf.size = size THEN SubSeq(frags, 1, n - 1)
            ELSE [frags EXCEPT ![n].size = cur_size - size]

\* Object::truncate
ObjectTruncate(m, frags, size) ==
    Let(fs_alloc_bytes(m, size - ObjectSize(frags)), LAMBDA g :
    IF m.st # "ok" THEN R(m, frags)
    ELSE IF frags = <<>>
    THEN IF size = 0 THEN R(m, frags) ELSE R(MPanic(m, "todo"), frags)
    ELSE IF UGt(ObjectSize(frags), size)
    THEN R(m, TruncateShrink(frags, ObjectSize(frags), size))
    ELSE IF g.m.st # "ok" THEN R(g.m, frags)
    ELSE R(g.m, frags \o g.v))

\* ---- The object operations of the handle (fs.rs) ----

\* AMFS::create_object: returns the world and the new object set pointer.
create_object(m, objects, id, size, bld) ==
    Let(fs_alloc_blocks(m, 1), LAMBDA a :
    IF a.m.st # "ok" THEN R(a.m, objects)
    ELSE set_object(a.m, objects, id, <<Fragment(size, 0, a.v)>>, bld))

\* AMFS::write_object: the value is the pointer and the byte count returned,
\* with the fragments handed to set_object.
write_object(m, objects, id, start, data, bld) ==
    Let(get_object(m.disk, objects, id), LAMBDA o :
    Let(ObjectWriteLoop(m, o.frags, 1, 0, 0, start, data, bld), LAMBDA w :
    Let(set_object(w.m, objects, id, w.v.frags, bld), LAMBDA s :
    LET out(mm, p) == R(mm, [objects |-> p, res |-> w.v.res, frags |-> w.v.frags])
        none == [objects |-> objects, res |-> 0, frags |-> <<>>]
    IN IF o.st # "ok" THEN R([m EXCEPT !.st = o.st, !.e = o.e], none)
       ELSE IF ~o.some THEN R(MErr(m, "NoObject"), none)
       ELSE IF w.m.st # "ok" THEN out(w.m, objects)
       ELSE out(s.m, s.v))))

\* AMFS::truncate_object
truncate_object(m, objects, id, len, bld) ==
    Let(get_object(m.disk, objects, id), LAMBDA o :
    Let(ObjectTruncate(m, o.frags, len), LAMBDA t :
    IF o.st # "ok" THEN R([m EXCEPT !.st = o.st, !.e = o.e], objects)
    ELSE IF ~o.some THEN R(MPanic(m, "assert exists_object"), objects)
    ELSE IF t.m.st # "ok" THEN R(t.m, objects)
    ELSE set_object(t.m, objects, id, t.v, bld)))

\* AMFS::size_object
size_object(disk, objects, id) ==
    Let(get_object(disk, objects, id), LAMBDA o :
    IF o.st # "ok" THEN [st |-> o.st, e |-> o.e, v |-> 0]
    ELSE IF ~o.some THEN [st |-> "err", e |-> "0", v |-> 0]
    ELSE [st |-> "ok", e |-> "", v |-> ObjectSize(o.frags)])

\* AMFS::read_object into a buffer of len bytes
read_object(disk, objects, id, start, len) ==
    Let(get_object(disk, objects, id), LAMBDA o :
    IF o.st # "ok" THEN [st |-> o.st, e |-> o.e, n |-> 0, data |-> <<>>]
    ELSE IF ~o.some THEN [st |-> "err", e |-> "0", n |-> 0, data |-> <<>>]
    ELSE ObjectRead(disk, o.frags, start, len))

\* ------------------------------------------------------------------------
\* State
\* ------------------------------------------------------------------------

VARIABLES
    al,      \* SpecAlloc: the allocator object under test
    alOp,    \* SpecAlloc: the last call made on it, with its result and pre-state
    alOp2,   \* SpecAlloc: the call before the last
    disk,    \* Spec: the blocks of the disk image
    build,   \* Spec: "debug" (overflow panics) or "release" (overflow wraps)
    fs,      \* Spec: the handle (AMFS): superblock copies, allocator, free queue,
             \*       journal, object set pointer, current txid
    cm,      \* Spec: how far commit() got, and its locals
    h,       \* Spec: history of the run (last call, committed and pending states)
    cnt      \* Spec: calls made so far

avars == <<al, alOp, alOp2>>

fvars == <<disk, build, fs, cm, h, cnt>>

vars == <<al, alOp, alOp2, disk, build, fs, cm, h, cnt>>

\* commit() not running.
CmIdle ==
    [pc |-> "idle", rg |-> FSGroupNew, root_ptr |-> AMPointerNull, i |-> 0, sbw |-> 0, lw |-> -1]

\* ------------------------------------------------------------------------
\* SpecAlloc: one allocator object driven through its public operations
\* (Allocator::new, mark_used, alloc_blocks, alloc_many, free)
\* ------------------------------------------------------------------------

\* The record of a call: its name, arguments, result and the allocator before.
OpRec(name, args, r, pre) ==
    [name |-> name, args |-> args, st |-> r.st, v |-> r.v, e |-> r.e, pre |-> pre]

\* A call ends the life of the object when it panics.
AllocLive == alOp.st # "panic"

AllocStep(name, args, r) ==
    /\ AllocLive
    /\ al' = r.a
    /\ alOp' = OpRec(name, args, r, al)
    /\ alOp2' = alOp
    /\ UNCHANGED fvars

\* Allocator::new(size)
AInit ==
    /\ \E size \in 1..MaxTotal : al = AllocatorNew(size)
    /\ alOp = OpRec("new", <<>>, ARes("ok", al, <<>>, ""), al)
    /\ alOp2 = alOp
    /\ disk = <<>> /\ build = "debug" /\ fs = NoHandle("down", "")
    /\ cm = CmIdle /\ h = <<>> /\ cnt = <<>>

\* Allocator::mark_used(start, size): both arguments are u64 and neither is
\* checked before use, so the empty range (size 0) and a start at the end of
\* the capacity are inputs as well.
AMarkUsed ==
    \E start \in 0..al.size, size \in 0..al.size :
        AllocStep("mark_used", <<start, size>>, mark_used(al, start, size))

\* Allocator::alloc_blocks(size)
AAllocBlocks ==
    \E size \in 1..(al.size + 1) :
        AllocStep("alloc_blocks", <<size>>, alloc(al, size))

\* Allocator::alloc_many(count)
AAllocMany ==
    \E count \in 1..(al.size + 1) :
        AllocStep("alloc_many", <<count>>, alloc_many(al, count))

\* Allocator::free(start)
AFree ==
    \E addr \in 0..(al.size - 1) :
        AllocStep("free", <<addr>>, free(al, addr))

\* The allocator as read back from the image a write left on the disk.
AImage(w) ==
    Let(AllocatorRead(w.m.disk, w.v), LAMBDA b :
    ARes(IF w.m.st # "ok" THEN w.m.st ELSE b.st, w.m.al, <<b.v>>,
         IF w.m.st # "ok" THEN w.m.e ELSE b.e))

\* A disk group of the given size with no block written yet
\* (test::dg::create_dg_mem_single).
ScratchGroup(size, a) == World([i \in 0..(size - 1) |-> ZeroBlock], a, <<>>, <<>>, 0)

\* AllocatorObj::write into a disk group of its own, then AllocatorObj::read
\* of the pointer returned (rw_test); the allocator written is not the one
\* of the group, which the call leaves as it was.
AWrite ==
    \E w \in {LLGWrite(ScratchGroup(al.size, AllocatorNew(al.size)),
                       AllocatorValues(al), EntEachU64)} :
        AllocStep("write", <<>>, [AImage(w) EXCEPT !.a = al])

\* Allocator::prealloc and write_preallocd on the disk group the allocator
\* belongs to (FSGroup::write_allocators), then AllocatorObj::read of the
\* pointer returned.  The blocks of the image are taken from the allocator
\* before it is written.
AWritePreallocd ==
    \E p \in {AllocatorPrealloc(ScratchGroup(al.size, al), EntEachU64)} :
        \E w \in {AllocatorWritePreallocd(p.m, p.v, EntEachU64)} :
            AllocStep("write_preallocd", <<>>, AImage(w))

ANext == AMarkUsed \/ AAllocBlocks \/ AAllocMany \/ AFree \/ AWrite \/ AWritePreallocd

SpecAlloc == AInit /\ [][ANext]_vars

\* ------------------------------------------------------------------------
\* Spec: one disk formatted by mkfs_single, mounted through AMFS::open and
\* driven through create_object, write_object, truncate_object and commit.
\* The process may stop between any two steps of commit; the block whose
\* write was in progress may then be left torn.
\* ------------------------------------------------------------------------

ObjIds == 0..(MaxObj - 1)

CreateSizes == {1, BLOCK_SIZE}

WriteStarts == {0, BLOCK_SIZE}

WriteData == {<<7>>, [i \in 1..BLOCK_SIZE |-> 7]}

TruncLens == {1, 2 * BLOCK_SIZE}

\* What a caller can observe of the objects: size_object and read_object at
\* a few offsets and lengths, for the ids in use and one beyond.
Probes == {0, BLOCK_SIZE} \X {1, BLOCK_SIZE}

ObjView(d, objects) ==
    [id \in 0..MaxObj |->
        [size |-> size_object(d, objects, id),
         reads |-> [q \in Probes |-> read_object(d, objects, id, q[1], q[2])]]]

NoState == [st |-> "none", root |-> FSGroupNew, view |-> <<>>]

\* What mounting the disk d yields: the root group and the view of the objects.
MountState(d) ==
    Let(open(d), LAMBDA o :
    IF o.st = "up"
    THEN [st |-> "up", root |-> get_root_group(load_superblocks(d), d).v,
          view |-> ObjView(d, o.objects)]
    ELSE [NoState EXCEPT !.st = o.st])

NoOp ==
    [name |-> "none", args |-> <<>>, st |-> "ok", e |-> "", res |-> 0,
     objects |-> AMPointerNull, pre |-> <<>>, post |-> <<>>, na |-> {}]

Init ==
    /\ \E devid \in {0, DevId} : disk = mkfs_single(devid).disk
    /\ build \in {"debug", "release"}
    /\ fs = NoHandle("down", "")
    /\ cm = CmIdle
    /\ h = [ev |-> "mkfs", op |-> NoOp, w |-> {}, cur |-> MountState(disk), pend |-> NoState,
            old |-> NoState, crashAt |-> "none", clean |-> FALSE, opened |-> NoState]
    /\ cnt = [ops |-> 0, commits |-> 0, crashes |-> 0]
    /\ al = AllocatorNew(1)
    /\ alOp = OpRec("new", <<>>, ARes("ok", al, <<>>, ""), al)
    /\ alOp2 = alOp

\* The history with what concerned the previous step cleared.
H0 ==
    [h EXCEPT !.ev = "op", !.op = NoOp, !.w = {}, !.old = NoState, !.opened = NoState,
              !.crashAt = "none", !.clean = FALSE]

\* AMFS::open
Open ==
    /\ fs.st = "down"
    /\ fs' = open(disk)
    /\ h' = Let(MountState(disk), LAMBDA ms :
            [h EXCEPT !.ev = "open", !.op = NoOp, !.w = {}, !.opened = ms, !.old = h.cur,
                      !.cur = IF ms.st = "up" THEN ms ELSE h.cur])
    /\ UNCHANGED <<disk, build, cm, cnt, avars>>

\* Calls and stops so far.
Calls == cnt.ops + cnt.commits + cnt.crashes

\* The handle is mounted and no call is in progress.
Ready == fs.st = "up" /\ cm.pc = "idle"

\* The state a call of the handle works on.
M0 == World(disk, fs.al, fs.jn, fs.fq, fs.cur_txid)

\* The handle after a call that left the world m: a panic under the write
\* lock poisons it; an error leaves the object set pointer as it was.
After(m, objects) ==
    IF m.st = "panic" THEN NoHandle("poisoned", m.e)
    ELSE [fs EXCEPT !.al = m.al, !.jn = m.jn, !.fq = m.fq,
                    !.objects = IF m.st = "ok" THEN objects ELSE @]

OpDone(name, id, args, res, m, objects, post) ==
    /\ disk' = m.disk
    /\ fs' = After(m, objects)
    /\ h' = [H0 EXCEPT !.op = [name |-> name, args |-> <<id>> \o args, st |-> m.st, e |-> m.e,
                               res |-> res, objects |-> fs.objects,
                               pre |-> get_object(disk, fs.objects, id).frags,
                               post |-> post, na |-> m.na],
                       !.w = m.w, !.pend = NoState]
    /\ cnt' = [cnt EXCEPT !.ops = @ + 1]
    /\ UNCHANGED <<build, cm, avars>>

\* FSHandle::create_object(id, size)
CreateObject ==
    /\ Ready /\ cnt.ops < MaxOps /\ Calls < MaxCalls
    /\ \E id \in ObjIds, size \in CreateSizes :
         \E r \in {create_object(M0, fs.objects, id, size, build)} :
            OpDone("create", id, <<size>>, 0, r.m, r.v, <<>>)

\* FSHandle::write_object(id, start, data)
WriteObject ==
    /\ Ready /\ cnt.ops < MaxOps /\ Calls < MaxCalls
    /\ \E id \in ObjIds, start \in WriteStarts, data \in WriteData :
         \E r \in {write_object(M0, fs.objects, id, start, data, build)} :
            OpDone("write", id, <<start, Len(data)>>, r.v.res, r.m, r.v.objects, r.v.frags)

\* FSHandle::truncate_object(id, len)
TruncateObject ==
    /\ Ready /\ cnt.ops < MaxOps /\ Calls < MaxCalls
    /\ \E id \in ObjIds, len \in TruncLens :
         \E r \in {truncate_object(M0, fs.objects, id, len, build)} :
            OpDone("truncate", id, <<len>>, 0, r.m, r.v, <<>>)

\* A step of commit that left the world m: on success commit moves on to c,
\* an error makes it return, a panic ends it where it stands.
CommitStep(m, c, hh) ==
    /\ disk' = m.disk
    /\ fs' = After(m, fs.objects)
    /\ cm' = IF m.st = "ok" THEN [c EXCEPT !.lw = m.lw]
             ELSE IF m.st = "err" THEN CmIdle
             ELSE [cm EXCEPT !.lw = -1]
    /\ h' = [hh EXCEPT !.ev = "commit_step", !.w = m.w,
                       !.pend = IF m.st = "err" THEN NoState ELSE @]
    /\ UNCHANGED <<build, avars>>

\* A faulty start of commit that keeps the object set pointer of the root
\* group on disk.
CommitBeginStaleObjects ==
    /\ Ready /\ cnt.commits < MaxCommits /\ Calls < MaxCalls
    /\ \E g \in {get_root_group(fs.sbs, disk)} :
       \E a \in {dg_alloc_blocks(IF g.st = "ok" THEN M0 ELSE MErr(M0, g.e), 1)} :
          CommitStep(a.m,
                     [CmIdle EXCEPT !.pc = "fq", !.rg = g.v, !.root_ptr = a.v],
                     [H0 EXCEPT !.pend = [st |-> "up", root |-> FSGroupNew,
                                          view |-> ObjView(disk, fs.objects)]])
    /\ cnt' = [cnt EXCEPT !.commits = @ + 1]

\* commit: the lock, the current root group with the handle's object set
\* pointer, and a block for the new root.
CommitBegin ==
    /\ Ready /\ cnt.commits < MaxCommits /\ Calls < MaxCalls
    /\ \E g \in {get_root_group(fs.sbs, disk)} :
       \E a \in {dg_alloc_blocks(IF g.st = "ok" THEN M0 ELSE MErr(M0, g.e), 1)} :
          CommitStep(a.m,
                     [CmIdle EXCEPT !.pc = "fq", !.rg = [g.v EXCEPT !.objects = fs.objects],
                                    !.root_ptr = a.v],
                     [H0 EXCEPT !.pend = [st |-> "up", root |-> FSGroupNew,
                                          view |-> ObjView(disk, fs.objects)]])
    /\ cnt' = [cnt EXCEPT !.commits = @ + 1]

\* commit: root_group.write_free_queue
CommitFreeQueue ==
    /\ fs.st = "up" /\ cm.pc = "fq"
    /\ \E r \in {write_free_queue(M0, cm.rg)} :
          CommitStep(r.m, [cm EXCEPT !.pc = "alloc", !.rg = r.v], [H0 EXCEPT !.pend = h.pend])
    /\ cnt' = cnt

\* commit: root_group.write_allocators
CommitAllocators ==
    /\ fs.st = "up" /\ cm.pc = "alloc"
    /\ \E r \in {write_allocators(M0, cm.rg, fs.devid)} :
          CommitStep(r.m, [cm EXCEPT !.pc = "root", !.rg = r.v], [H0 EXCEPT !.pend = h.pend])
    /\ cnt' = cnt

\* commit: root_group.write
CommitRoot ==
    /\ fs.st = "up" /\ cm.pc = "root"
    /\ \E r \in {FSGroupWrite(M0, cm.rg, cm.root_ptr)} :
          CommitStep(r.m, [cm EXCEPT !.pc = "sb", !.i = 1, !.root_ptr = r.v],
                     [H0 EXCEPT !.pend = [h.pend EXCEPT !.root = cm.rg]])
    /\ cnt' = cnt

\* commit: one turn of the loop over the four superblock copies.  A copy that
\* did not read back at mount is skipped; latest_root is incremented without
\* wrapping and indexes the ring.
CommitSuperblock ==
    /\ fs.st = "up" /\ cm.pc = "sb"
    /\ LET sb == fs.sbs[cm.i]
           slot == sb.latest_root + 1
           sb1 == update_checksum([sb EXCEPT !.latest_root = slot,
                                             !.rootnodes[slot] = cm.root_ptr])
           m == IF sb.t # "sb" THEN M0
                ELSE IF slot >= RootSlots THEN MPanic(M0, "index out of bounds")
                ELSE SuperblockWrite(M0, sb1, get_header_locs[cm.i])
           c == [cm EXCEPT !.pc = IF cm.i = 4 THEN "sync" ELSE "sb", !.i = cm.i + 1,
                           !.sbw = IF sb.t = "sb" THEN @ + 1 ELSE @]
       IN /\ disk' = m.disk
          /\ fs' = IF m.st = "ok" /\ sb.t = "sb" THEN [fs EXCEPT !.sbs[cm.i] = sb1]
                   ELSE After(m, fs.objects)
          /\ cm' = IF m.st = "ok" THEN [c EXCEPT !.lw = m.lw]
                   ELSE IF m.st = "err" THEN CmIdle
                   ELSE [cm EXCEPT !.lw = -1]
          /\ h' = [H0 EXCEPT !.ev = "commit_step", !.w = m.w,
                             !.pend = IF m.st = "err" THEN NoState ELSE h.pend]
    /\ UNCHANGED <<build, cnt, avars>>

\* commit: self.sync() and the return
CommitSync ==
    /\ fs.st = "up" /\ cm.pc = "sync"
    /\ cm' = CmIdle
    /\ h' = [H0 EXCEPT !.ev = "commit", !.old = h.cur, !.cur = h.pend, !.pend = NoState,
                       !.clean = TRUE]
    /\ UNCHANGED <<disk, build, fs, cnt, avars>>

\* How far commit had got when the process stopped.
CrashPhase ==
    IF cm.pc = "idle" THEN "idle"
    ELSE IF cm.sbw = 0 THEN "pre"
    ELSE "sb"

\* The process stops: the handle is gone, the disk keeps what was written.
\* Inside commit the block written last may not have made it whole.
Crash ==
    /\ fs.st \in {"up", "poisoned"} /\ cnt.crashes < MaxCrashes /\ Calls < MaxCalls
    /\ \E torn \in BOOLEAN :
         /\ torn => (cm.pc # "idle" /\ cm.lw >= 0)
         /\ disk' = IF torn THEN [disk EXCEPT ![cm.lw] = TornBlock] ELSE disk
    /\ fs' = NoHandle("down", "")
    /\ cm' = CmIdle
    /\ h' = [H0 EXCEPT !.ev = "crash", !.crashAt = CrashPhase, !.pend = h.pend,
                       !.clean = h.clean /\ fs.st = "up"]
    /\ cnt' = [cnt EXCEPT !.crashes = @ + 1]
    /\ UNCHANGED <<build, avars>>

Next ==
    \/ Open
    \/ CreateObject
    \/ WriteObject
    \/ TruncateObject
    \/ CommitBegin
    \/ CommitFreeQueue
    \/ CommitAllocators
    \/ CommitRoot
    \/ CommitSuperblock
    \/ CommitSync
    \/ Crash

Spec == Init /\ [][Next]_vars

\* ------------------------------------------------------------------------
\* Claims about commit, mount and copy-on-write (checked under Spec)
\* ------------------------------------------------------------------------

HeaderLocs == {get_header_locs[i] : i \in 1..4}

\* The blocks of the list that starts at p.
RECURSIVE LLGLocs(_, _, _)
LLGLocs(d, p, fuel) ==
    IF fuel = 0 \/ p.null \/ p.loc \notin DOMAIN d THEN {}
    ELSE {p.loc} \cup LLGLocs(d, LLGParse(d[p.loc]).next, fuel - 1)

\* The blocks the fragments stored in the object list block c point to.
FragLocs(c) ==
    LET w == ObjectListParse(c).w
    IN {w[k - 1].v : k \in {j \in 2..Len(w) : w[j].v = -1 \/ w[j].s # NoSum}}

\* The blocks reachable from the root group rg stored at p.
ReachFrom(d, rg, p) ==
    LET lst == LLGRead(d, rg.alloc)
        ents == IF lst.st = "ok" THEN lst.v ELSE <<>>
    IN {p.loc}
       \cup LLGLocs(d, rg.alloc, DiskSize)
       \cup UNION {LLGLocs(d, ents[i].allocator, DiskSize) : i \in DOMAIN ents}
       \cup LLGLocs(d, rg.free_queue, DiskSize)
       \cup (IF rg.objects.null \/ rg.objects.loc \notin DOMAIN d THEN {}
             ELSE {rg.objects.loc} \cup FragLocs(d[rg.objects.loc]))

\* The blocks reachable from the root group a mount of d returns.
Reach(d) ==
    LET g == get_root_group(load_superblocks(d), d)
    IN IF g.st = "ok" THEN ReachFrom(d, g.v, g.p) ELSE {}

\* The pointers queued under the current txid.
FreedNow ==
    IF fs.cur_txid \in DOMAIN fs.fq
    THEN {fs.fq[fs.cur_txid][i] : i \in DOMAIN fs.fq[fs.cur_txid]}
    ELSE {}

\* C1 as stated: a commit that returned Ok published a root group whose txid
\* is strictly greater than the txid of the root group it replaced.
C1_TxidIncreases ==
    h.ev = "commit" => h.cur.root.txid > h.old.root.txid

\* C2: when commit returned Ok and the disk is then opened again, the mount
\* succeeds, its root group is the one that commit wrote, and size_object and
\* read_object give for every id what they gave when that commit started.
C2_CommitThenRemount ==
    (h.ev = "open" /\ h.crashAt = "idle" /\ h.clean) => h.opened = h.old

\* C2 witness: such a mount, showing an object that a call before the commit
\* created.
C2_Witness ==
    /\ h.ev = "open" /\ h.crashAt = "idle" /\ h.clean
    /\ h.opened.st = "up"
    /\ h.opened.view[0].size.v > 0
    /\ h.opened.root.objects # AMPointerNull

\* C3: when the process stops inside commit before any superblock copy was
\* written, the next mount returns the root group and the object sizes and
\* contents of the last committed state.
C3_CrashBeforeSuperblocks ==
    (h.ev = "open" /\ h.crashAt = "pre") => h.opened = h.old

\* C3 witness: the new root block had been written, and the uncommitted
\* calls had changed what the objects read as.
C3_Witness ==
    /\ h.ev = "open" /\ h.crashAt = "pre"
    /\ h.opened.st = "up"
    /\ h.pend.root # FSGroupNew
    /\ h.pend.view # h.old.view

\* C4 as stated: when the process stops during the superblock writes of a
\* commit, the next mount succeeds and returns either the state committed
\* before that commit or the state it was publishing.
C4_CrashDuringSuperblocks ==
    (h.ev = "open" /\ h.crashAt = "sb") => (h.opened = h.old \/ h.opened = h.pend)

\* C5: no step of create_object, write_object, truncate_object or commit
\* writes a block reachable from the root group a mount would return, the
\* superblock locations excepted.
C5_NoInPlaceWrite ==
    [][(h'.w \cap Reach(disk)) \subseteq HeaderLocs]_vars

\* C5 witness: write_object succeeded on an object whose blocks are
\* reachable from the committed root group.
C5_Witness ==
    /\ h.ev = "op" /\ h.op.name = "write" /\ h.op.st = "ok"
    /\ h.w # {}
    /\ h.clean = FALSE
    /\ h.op.objects = h.cur.root.objects
    /\ \E i \in DOMAIN h.op.pre : h.op.pre[i].pointer.loc \in Reach(disk) /\ h.op.pre[i].size > 0

\* C6: after write_object returned Ok, every block it wrote is a block it
\* allocated; the object set pointer and the pointer of every fragment it
\* wrote (the fragments it handed to set_object, stored in the new object
\* set block) name such a block, different from the one named before, and
\* the pointers they replace are queued under free_queue[cur_txid].
C6_WriteReallocates ==
    (h.ev = "op" /\ h.op.name = "write" /\ h.op.st = "ok") =>
        LET pre == h.op.pre
            post == h.op.post
            Written == {i \in DOMAIN post : post[i].pointer.loc \in h.w}
        IN /\ Len(post) = Len(pre)
           /\ h.w \subseteq h.op.na
           /\ h.w \subseteq {fs.objects.loc} \cup {post[i].pointer.loc : i \in DOMAIN post}
           /\ h.w \ {fs.objects.loc} \subseteq FragLocs(disk[fs.objects.loc])
           /\ fs.objects.loc \in h.w
           /\ fs.objects.loc # h.op.objects.loc
           /\ h.op.objects \in FreedNow
           /\ \A i \in Written :
                /\ post[i].pointer.loc # pre[i].pointer.loc
                /\ pre[i].pointer \in FreedNow

\* C6 witness: a write that reached the second fragment of an object.
C6_Witness ==
    /\ h.ev = "op" /\ h.op.name = "write" /\ h.op.st = "ok"
    /\ Len(h.op.pre) = 2
    /\ h.op.post[2].pointer.loc \in h.w
    /\ get_object(disk, fs.objects, h.op.args[1]).frags = h.op.post

\* ------------------------------------------------------------------------
\* Claims about the allocator (checked under SpecAlloc)
\* ------------------------------------------------------------------------

\* The extents of a in key order.
ExtKeys(a) == SortedSeq(DOMAIN a.extents)

\* Extents are non-empty, start at 0, each ends where the next starts and the
\* last ends at the capacity: they are disjoint and tile [0, total).
ExtentsTile(a) ==
    LET ks == ExtKeys(a)
    IN /\ Len(ks) >= 1
       /\ ks[1] = 0
       /\ \A i \in 1..Len(ks) :
            /\ a.extents[ks[i]].size >= 1
            /\ ks[i] + a.extents[ks[i]].size = (IF i < Len(ks) THEN ks[i + 1] ELSE a.size)

\* No two neighbouring extents are both free.
NoAdjacentFree(a) ==
    LET ks == ExtKeys(a)
    IN \A i \in 1..(Len(ks) - 1) : a.extents[ks[i]].used \/ a.extents[ks[i + 1]].used

ExtentInv(a) == ExtentsTile(a) /\ NoAdjacentFree(a)

\* Whether block x lies in a used extent of a.
BlockUsed(a, x) == \E k \in DOMAIN a.extents :
                      k <= x /\ x < k + a.extents[k].size /\ a.extents[k].used

\* Whether block x lies in some extent of a.
BlockCovered(a, x) == \E k \in DOMAIN a.extents : k <= x /\ x < k + a.extents[k].size

C7_Witness ==
    /\ alOp.name = "free" /\ alOp.st = "ok"
    /\ Cardinality(DOMAIN alOp.pre.extents) = 3
    /\ al.extents = (0 :> Extent(al.size, FALSE))

\* C8: a successful alloc_blocks(n) returning b leaves a used extent of size
\* exactly n at b; [b, b+n) was free before; free_space drops by n; no block
\* outside [b, b+n) changes state.
C8_AllocExact ==
    (alOp.name = "alloc_blocks" /\ alOp.st = "ok") =>
        LET b == alOp.v[1]
            n == alOp.args[1]
        IN /\ b \in DOMAIN al.extents
           /\ al.extents[b] = Extent(n, TRUE)
           /\ \A x \in b..(b + n - 1) : BlockCovered(alOp.pre, x) /\ ~BlockUsed(alOp.pre, x)
           /\ free_space(al) = free_space(alOp.pre) - n
           /\ \A x \in (0..(al.size - 1)) \ (b..(b + n - 1)) :
                BlockUsed(al, x) = BlockUsed(alOp.pre, x)

\* C8 witness: an allocation that split a larger free extent behind a used one.
C8_Witness ==
    /\ alOp.name = "alloc_blocks" /\ alOp.st = "ok"
    /\ alOp.v[1] > 0
    /\ Cardinality(DOMAIN al.extents) > Cardinality(DOMAIN alOp.pre.extents)

\* No free extent of a has size >= n.
NoFreeExtentOf(a, n) == \A k \in DOMAIN a.extents : a.extents[k].used \/ a.extents[k].size < n

\* C9 as stated: alloc_blocks(n) on an allocator with no free extent of size
\* >= n, n = total + 1 included, returns AllocFailed without panicking and
\* leaves the extent map unchanged.
C9_AsStated ==
    (alOp.name = "alloc_blocks" /\ NoFreeExtentOf(alOp.pre, alOp.args[1])) =>
        /\ alOp.st = "err" /\ alOp.e = "AllocFailed"
        /\ al = alOp.pre

\* C9 amended: for 1 <= n <= total, alloc_blocks(n) on an allocator with no
\* free extent of size >= n returns AllocFailed and leaves the extent map
\* unchanged; for n > total the call panics on its size assertion.
C9_AllocFailed ==
    alOp.name = "alloc_blocks" =>
        /\ (alOp.args[1] <= alOp.pre.size /\ NoFreeExtentOf(alOp.pre, alOp.args[1])) =>
              (alOp.st = "err" /\ alOp.e = "AllocFailed" /\ al = alOp.pre)
        /\ alOp.args[1] > alOp.pre.size => alOp.st = "panic"

\* C9 witness: a failed allocation although enough free blocks exist in total
\* (they are fragmented).
C9_Witness ==
    /\ alOp.name = "alloc_blocks" /\ alOp.st = "err"
    /\ alOp.args[1] <= alOp.pre.size
    /\ free_space(alOp.pre) >= alOp.args[1]

C10_Witness ==
    /\ alOp.name = "free" /\ alOp.st = "ok"
    /\ alOp2.name = "alloc_blocks" /\ alOp2.st = "ok"
    /\ alOp.args[1] = alOp2.v[1]
    /\ alOp2.v[1] > 0
    /\ Cardinality(DOMAIN alOp.pre.extents) > Cardinality(DOMAIN alOp2.pre.extents)
    /\ al = alOp2.pre

\* ------------------------------------------------------------------------
\* Claims about alloc_many and mark_used (checked under SpecAlloc)
\* ------------------------------------------------------------------------

C11_Witness ==
    /\ alOp.name = "alloc_many" /\ alOp.st = "err"
    /\ free_space(alOp.pre) >= 3
    /\ Cardinality({k \in DOMAIN alOp.pre.extents : ~alOp.pre.extents[k].used}) >= 2
    /\ al = alOp.pre

\* Whether [start, start + size) lies inside one free extent of a.
InOneFreeExtent(a, start, size) ==
    \E k \in DOMAIN a.extents :
        /\ ~a.extents[k].used
        /\ k <= start /\ start + size <= k + a.extents[k].size
        /\ \A j \in DOMAIN a.extents : j <= start => j <= k

\* C12: mark_used(start, size) on a range inside one free extent succeeds,
\* marks exactly the blocks [start, start + size) used, splits that extent
\* into at most three and changes the state of no other block; on any other
\* range (it starts in or reaches into a used extent, or crosses the end of
\* its extent) the call fails, by a failed assertion, and marks nothing.
C12_MarkUsedExact ==
    alOp.name = "mark_used" =>
        LET start == alOp.args[1]
            size == alOp.args[2]
            range == start..(start + size - 1)
        IN /\ (alOp.st = "ok") = InOneFreeExtent(alOp.pre, start, size)
           /\ alOp.st = "ok" =>
                /\ \A x \in range : BlockUsed(al, x) /\ ~BlockUsed(alOp.pre, x)
                /\ \A x \in (0..(al.size - 1)) \ range :
                     BlockUsed(al, x) = BlockUsed(alOp.pre, x)
                /\ Cardinality(DOMAIN al.extents) <= Cardinality(DOMAIN alOp.pre.extents) + 2
                /\ size > 0 => (start \in DOMAIN al.extents /\ al.extents[start] = Extent(size, TRUE))
           /\ alOp.st # "ok" => (alOp.st = "panic" /\ al = alOp.pre)

\* C12 witness: a range taken from the middle of a free extent that lies
\* behind a used one, splitting it into three.
C12_Witness ==
    /\ alOp.name = "mark_used" /\ alOp.st = "ok"
    /\ alOp.args[2] >= 1
    /\ \E k \in DOMAIN alOp.pre.extents : alOp.pre.extents[k].used
    /\ Cardinality(DOMAIN al.extents) = Cardinality(DOMAIN alOp.pre.extents) + 2

\* C12 second case: a call refused because the range reaches from a free
\* extent into the used extent behind it.
C12_WitnessRefused ==
    /\ alOp.name = "mark_used" /\ alOp.st = "panic"
    /\ ~BlockUsed(alOp.pre, alOp.args[1])
    /\ alOp.args[1] + alOp.args[2] <= alOp.pre.size
    /\ \E x \in alOp.args[1]..(alOp.args[1] + alOp.args[2] - 1) : BlockUsed(alOp.pre, x)

\* ------------------------------------------------------------------------
\* SpecLLG: lists of fixed-size records written to and read from a disk
\* group (LinkedListGlobal for Vec<T>, ondisk/linkedlist.rs)
\* ------------------------------------------------------------------------

\* Blocks of the disk group the lists are written to.
LLGDiskSize == 5

\* Bytes of a list block behind its header (BLOCK_SIZE - size_of::<LLGHeader>(),
\* 4064 in the source).
LLGBodyBytes == 2

\* Longest list written.
MaxList == 3

\* Blocks of the group taken before the first list is written.
MaxMarks == 1

\* write / write_preallocd calls in a run.
MaxLists == 2

\* size_of::<T>() of the record types: one-byte and two-byte integers.
RecordSizes == {1, 2}

\* 256^n
RECURSIVE Pow256(_)
Pow256(n) == IF n = 0 THEN 1 ELSE 256 * Pow256(n - 1)

\* The records of a type: two values whose bytes are not all alike.
RecordValues(size) == {1, Pow256(size) - 2}

\* any_as_u8_slice on an integer record of the given size: its bytes in
\* memory, least significant first.
any_as_u8_slice(x, size) == [i \in 1..size |-> (x \div Pow256(i - 1)) % 256]

\* u8_slice_as_any: T::decode_from_le_bytes.
RECURSIVE u8_slice_as_any(_)
u8_slice_as_any(bytes) ==
    IF bytes = <<>> THEN 0 ELSE Head(bytes) + 256 * u8_slice_as_any(Tail(bytes))

\* ent_each of write, write_preallocd and prealloc.
EntEach(size) == LLGBodyBytes \div size

\* The lists of records of one size, up to MaxList long.
Lists(size) == UNION {[1..n -> RecordValues(size)] : n \in 0..MaxList}

\* The disk group as the list code sees it.
LLWorld == World(disk, al, <<>>, <<>>, 0)

\* The record of a list call: the list handed in, its record size, the
\* pointer returned and what a read of that pointer returned.
LLRec(ev, v, size, st, ptr, rd) ==
    [ev |-> ev, v |-> v, size |-> size, st |-> st, ptr |-> ptr, rd |-> rd, n |-> h.n + 1]

LLInit ==
    /\ disk = [i \in 0..(LLGDiskSize - 1) |-> ZeroBlock]
    /\ al = AllocatorNew(LLGDiskSize)
    /\ h = [ev |-> "new", v |-> <<>>, size |-> 1, st |-> "ok", ptr |-> AMPointerNull,
            rd |-> <<>>, n |-> 0]
    /\ alOp = <<>> /\ alOp2 = <<>>
    /\ build = "debug" /\ fs = NoHandle("down", "") /\ cm = CmIdle /\ cnt = <<>>

LLStep(ev, v, size, r) ==
    /\ disk' = r.m.disk
    /\ al' = r.m.al
    /\ h' = LLRec(ev, v, size, r.m.st, r.v, <<>>)
    /\ UNCHANGED <<alOp, alOp2, build, fs, cm, cnt>>

\* Blocks of the group taken by something else (Allocator::mark_used), so
\* that the blocks of a list need not be neighbours.
LLMarkUsed ==
    /\ h.ev = "new" /\ used_space(al) < MaxMarks
    /\ \E start \in 0..(LLGDiskSize - 1) :
         \E r \in {mark_used(al, start, 1)} :
            /\ r.st = "ok"
            /\ al' = r.a
            /\ UNCHANGED <<disk, h, alOp, alOp2, build, fs, cm, cnt>>

\* The blocks of the list written last are given back (Allocator::free), so
\* that the next list is written over stale list blocks.
LLFree ==
    /\ h.ev = "read"
    /\ \E addr \in LLGLocs(disk, h.ptr, LLGDiskSize) :
         \E r \in {free(al, addr)} :
            /\ r.st = "ok"
            /\ al' = r.a
            /\ UNCHANGED <<disk, h, alOp, alOp2, build, fs, cm, cnt>>

\* v.write(diskgroups, 0)
LLWrite ==
    /\ h.n < MaxLists
    /\ \E size \in RecordSizes : \E v \in Lists(size) :
        \E r \in {LLGWrite(LLWorld, [i \in DOMAIN v |-> any_as_u8_slice(v[i], size)],
                           EntEach(size))} :
            LLStep("write", v, size, r)

\* v.write_preallocd(diskgroups, v.prealloc(v.len(), diskgroups, 0))
LLWritePreallocd ==
    /\ h.n < MaxLists
    /\ \E size \in RecordSizes : \E v \in Lists(size) :
        \E p \in {LLGPrealloc(LLWorld, Len(v), EntEach(size))} :
            \E r \in {LLGWritePreallocd(p.m, [i \in DOMAIN v |-> any_as_u8_slice(v[i], size)],
                                        p.v, EntEach(size))} :
               LLStep("write_preallocd", v, size, r)

\* Vec::<T>::read(diskgroups, ptr) on the pointer the last write returned.
LLRead ==
    /\ h.ev \in {"write", "write_preallocd"} /\ h.st = "ok"
    /\ \E r \in {LLGRead(disk, h.ptr)} :
         h' = [h EXCEPT !.ev = "read",
                        !.rd = [st |-> r.st,
                                v |-> [i \in DOMAIN r.v |-> u8_slice_as_any(r.v[i])]]]
    /\ UNCHANGED <<disk, al, alOp, alOp2, build, fs, cm, cnt>>

LLNext == LLMarkUsed \/ LLFree \/ LLWrite \/ LLWritePreallocd \/ LLRead

SpecLLG == LLInit /\ [][LLNext]_vars

\* C13: reading the pointer returned by a successful write or write_preallocd
\* (the latter on the blocks prealloc returned for the list) yields the list
\* that was written: same records, same order; the empty list and lists
\* spanning several blocks included.
C13_LLGRoundTrip ==
    h.ev = "read" => (h.rd.st = "ok" /\ h.rd.v = h.v)

\* C13 witness: a list spanning three blocks that do not lie next to each
\* other, written by write_preallocd over the blocks of an earlier list, read
\* back.
C13_Witness ==
    /\ h.ev = "read" /\ h.n = 2 /\ h.rd.v = h.v
    /\ Len(h.v) > 2 * EntEach(h.size)
    /\ \E i \in DOMAIN h.v : h.v[i] # h.v[1]
    /\ Cardinality(LLGLocs(disk, h.ptr, LLGDiskSize)) = 3
    /\ \E x \in 0..(LLGDiskSize - 1) :
         /\ x \notin LLGLocs(disk, h.ptr, LLGDiskSize)
         /\ \E a, b \in LLGLocs(disk, h.ptr, LLGDiskSize) : a < x /\ x < b

\* C13 second case: the empty list, which takes one block with count 0.
C13_WitnessEmpty ==
    /\ h.ev = "read" /\ h.v = <<>> /\ h.rd.st = "ok" /\ h.rd.v = <<>>
    /\ ~h.ptr.null /\ disk[h.ptr.loc] = LLGBlock(AMPointerNull, <<>>)

\* C14: the allocator read back from the pointer that write or
\* write_preallocd returned has the total size and the extent map (starts,
\* sizes, used flags) of the allocator that was written.
C14_AllocatorRoundTrip ==
    (alOp.name \in {"write", "write_preallocd"} /\ alOp.st = "ok") =>
        /\ alOp.v[1].size = al.size
        /\ alOp.v[1].extents = al.extents

\* C14 witness: an allocator with used and free extents in turn, written by
\* write_preallocd on its own disk group and read back.
C14_Witness ==
    /\ alOp.name = "write_preallocd" /\ alOp.st = "ok"
    /\ Cardinality(DOMAIN alOp.pre.extents) >= 3
    /\ \E k \in DOMAIN al.extents : k > 0 /\ ~al.extents[k].used
    /\ al # alOp.pre
    /\ alOp.v[1] = al

\* C14 second case: write into a disk group of its own.
C14_WitnessWrite ==
    /\ alOp.name = "write" /\ alOp.st = "ok"
    /\ Cardinality(DOMAIN al.extents) >= 3
    /\ alOp.v[1] = al

\* ------------------------------------------------------------------------
\* SpecImage: disk images as a mount finds them.  The image is the one
\* mkfs_single leaves, with two more root groups in free blocks and with the
\* four superblock copies edited field by field the way the image
\* generators of the test suite do (amfs-tests/src/imagegen/generators.rs);
\* the calls of a mount are then applied to it one at a time.
\* ------------------------------------------------------------------------

\* A signature field of zero bytes.
ZeroSignature == "zero"

\* The names of the feature bits: the two of AMFeatures and one bit that no
\* version defines.
FeatureBits == {"Base", "Never", "Bit2"}

\* The image of mkfs_single.
MkfsImage == mkfs_single(DevId)

\* The first of the free blocks of that image.
FreeBlock == SetMin({k \in DOMAIN MkfsImage.al.extents : ~MkfsImage.al.extents[k].used})

\* The root group of mkfs with another txid.
GroupOf(txid) ==
    [FSGroupParse(MkfsImage.disk[MkfsImage.disk[0].rootnodes[0].loc]) EXCEPT !.txid = txid]

\* The image with root groups of txid 1 and 2 in two free blocks.
BaseImage ==
    [MkfsImage.disk EXCEPT ![FreeBlock] = GroupOf(1), ![FreeBlock + 1] = GroupOf(2)]

\* Pointers to the three root groups, by txid, each with its checksum.
GroupPtr(txid) ==
    IF txid = 0 THEN MkfsImage.disk[0].rootnodes[0]
    ELSE update(BaseImage, AMPointerNew(FreeBlock + txid - 1))

\* A pointer to a root group whose checksum was never filled in.
StalePtr == AMPointerNew(FreeBlock)

\* Which of signature, checksum and devid of a copy are good.
Headers == [sig : BOOLEAN, sum : BOOLEAN, devid : BOOLEAN]

GoodHeader == [sig |-> TRUE, sum |-> TRUE, devid |-> TRUE]

\* The rootnodes rings of the first copy: slot j is null, stale or points to
\* the group of txid j.
Rings == [0..(RootSlots - 1) -> {"null", "stale", "group"}]

RingOf(r) ==
    [j \in 0..(RootSlots - 1) |->
        IF r[j] = "null" THEN AMPointerNull
        ELSE IF r[j] = "stale" THEN StalePtr ELSE GroupPtr(j % 3)]

\* The rings of the other copies: every slot null but slot 0.
SmallRings == {AMPointerNull, StalePtr, GroupPtr(1), GroupPtr(2)}

SmallRingOf(p) == [j \in 0..(RootSlots - 1) |-> IF j = 0 THEN p ELSE AMPointerNull]

\* Copy c with its fields edited; the checksum is brought up to date when
\* hd.sum says so and left zero otherwise.
Craft(c, hd, features, latest_root, ring) ==
    Let([c EXCEPT !.signature = IF hd.sig THEN SIGNATURE ELSE ZeroSignature,
                  !.devid = IF hd.devid THEN c.devid ELSE 0,
                  !.features = features,
                  !.latest_root = latest_root,
                  !.rootnodes = ring,
                  !.checksum = NoSum], LAMBDA body :
    IF hd.sum THEN update_checksum(body) ELSE body)

\* The image with copy i replaced by c(i).
WithCopies(c) ==
    [b \in DOMAIN BaseImage |->
        IF \E i \in 1..4 : get_header_locs[i] = b
        THEN c[CHOOSE i \in 1..4 : get_header_locs[i] = b]
        ELSE BaseImage[b]]

\* The headers with at most one field bad.
OneFault == {hd \in Headers : Cardinality({f \in {"sig", "sum", "devid"} : ~hd[f]}) <= 1}

\* Images whose copies differ in their headers only: any header on the first
\* two copies, at most one bad field on the others.
HeaderImages ==
    {WithCopies([i \in 1..4 |->
                    Craft(BaseImage[get_header_locs[i]], hd[i], current_set, 0,
                          SmallRingOf(GroupPtr(0)))]) :
        hd \in {x \in [1..4 -> Headers] : x[3] \in OneFault /\ x[4] \in OneFault}}

\* Images whose copies all read back and differ in features and rings; the
\* fourth copy is left out (zeroes) in half of them.
RingImages ==
    {WithCopies([i \in 1..4 |->
        IF i = 1 THEN Craft(BaseImage[0], GoodHeader, f, lr, RingOf(r))
        ELSE IF i = 4 /\ ~four THEN ZeroBlock
        ELSE Craft(BaseImage[get_header_locs[i]], GoodHeader, current_set, 0,
                   SmallRingOf(IF i = 2 THEN p2 ELSE p3))]) :
        f \in {current_set, {}, {"Base", "Never"}, {"Base", "Bit2"}},
        lr \in 0..(RootSlots - 1), r \in Rings,
        p2 \in SmallRings, p3 \in SmallRings, four \in BOOLEAN}

\* The image of generate_0000: zeroes everywhere.
ZeroImage == [b \in DOMAIN BaseImage |-> ZeroBlock]

Images == HeaderImages \cup RingImages \cup {ZeroImage}

\* The record of a call made on the image.
ImgRec(ev, i, arg, res) == [ev |-> ev, i |-> i, arg |-> arg, res |-> res]

ImgInit ==
    /\ disk \in Images
    /\ h = ImgRec("image", 0, {}, <<>>)
    /\ fs = NoHandle("down", "")
    /\ al = <<>> /\ alOp = <<>> /\ alOp2 = <<>>
    /\ build = "debug" /\ cm = CmIdle /\ cnt = <<>>

ImgStep(rec) ==
    /\ h' = rec
    /\ UNCHANGED <<disk, fs, al, alOp, alOp2, build, cm, cnt>>

\* Superblock::read(d, header_locs[i])
ImgRead ==
    /\ h.ev = "image"
    /\ \E i \in 1..4 : ImgStep(ImgRec("read", i, {}, SuperblockRead(disk, get_header_locs[i])))

\* Superblock::read_unchecked, Superblock::write and Superblock::read of
\* copy i (the step of generate_0002).
ImgWrite ==
    /\ h.ev = "image"
    /\ \E i \in 1..4 :
         /\ disk[get_header_locs[i]].t = "sb"
         /\ \E m \in {SuperblockWrite(World(disk, AllocatorNew(1), <<>>, <<>>, 0),
                                     disk[get_header_locs[i]], get_header_locs[i])} :
              /\ disk' = m.disk
              /\ h' = ImgRec("write", i, {}, SuperblockRead(m.disk, get_header_locs[i]))
    /\ UNCHANGED <<fs, al, alOp, alOp2, build, cm, cnt>>

\* Superblock::get_group on copy i as read from the image.
ImgGetGroup ==
    /\ h.ev = "image"
    /\ \E i \in 1..4 : \E s \in {SuperblockRead(disk, get_header_locs[i])} :
         /\ s.st = "ok"
         /\ ImgStep(ImgRec("get_group", i, {}, get_group(s.v, disk)))

\* Superblock::test_features(S) on copy i as read from the image.
ImgTestFeatures ==
    /\ h.ev = "image"
    /\ \E i \in 1..4, S \in SUBSET FeatureBits :
         \E s \in {SuperblockRead(disk, get_header_locs[i])} :
            /\ s.st = "ok"
            /\ ImgStep(ImgRec("test_features", i, S, test_features(s.v, S)))

\* AMFS::get_superblock on the copies load_superblocks found.
ImgGetSuperblock ==
    /\ h.ev = "image"
    /\ ImgStep(ImgRec("get_superblock", 0, {}, get_superblock(load_superblocks(disk), disk)))

\* FSHandle::open(&[d])
ImgOpen ==
    /\ h.ev = "image"
    /\ fs' = open(disk)
    /\ h' = ImgRec("open", 0, {}, <<>>)
    /\ UNCHANGED <<disk, al, alOp, alOp2, build, cm, cnt>>

ImgNext == ImgRead \/ ImgWrite \/ ImgGetGroup \/ ImgTestFeatures \/ ImgGetSuperblock \/ ImgOpen

SpecImage == ImgInit /\ [][ImgNext]_vars

\* ------------------------------------------------------------------------
\* Claims about superblocks and the mount (checked under SpecImage)
\* ------------------------------------------------------------------------

\* Whether block c starts with the magic.
HasMagic(c) == c.t = "sb" /\ c.signature = SIGNATURE

\* C15: Superblock::read returns Signature when the block does not start
\* with the magic; otherwise Checksum when the stored checksum is not the
\* CRC32 of the block with the checksum field zeroed; otherwise DiskID when
\* the devid is 0; otherwise the superblock.  So a superblock that was read
\* has the magic, a matching checksum and a nonzero devid, and a superblock
\* with the magic and a nonzero devid that Superblock::write wrote reads back.
C15_SuperblockReadChecks ==
    /\ h.ev = "read" =>
         LET c == disk[get_header_locs[h.i]]
         IN /\ ~HasMagic(c) => (h.res.st = "err" /\ h.res.e = "Signature")
            /\ (HasMagic(c) /\ c.checksum # Crc([c EXCEPT !.checksum = NoSum])) =>
                  (h.res.st = "err" /\ h.res.e = "Checksum")
            /\ (HasMagic(c) /\ c.checksum = Crc([c EXCEPT !.checksum = NoSum]) /\ c.devid = 0) =>
                  (h.res.st = "err" /\ h.res.e = "DiskID")
            /\ (HasMagic(c) /\ c.checksum = Crc([c EXCEPT !.checksum = NoSum]) /\ c.devid # 0) =>
                  (h.res.st = "ok" /\ h.res.v = c)
    /\ (h.ev = "write" /\ HasMagic(disk[get_header_locs[h.i]])
                       /\ disk[get_header_locs[h.i]].devid # 0) =>
          (h.res.st = "ok" /\ h.res.v = disk[get_header_locs[h.i]])

\* C15 witness: a copy with the magic, a wrong checksum and devid 0 is
\* refused for its checksum, not for its devid.
C15_Witness ==
    /\ h.ev = "read" /\ h.res.st = "err" /\ h.res.e = "Checksum"
    /\ HasMagic(disk[get_header_locs[h.i]])
    /\ disk[get_header_locs[h.i]].devid = 0

\* C15 second case: a copy whose checksum was wrong reads back once
\* Superblock::write has written it.
C15_WitnessWrite ==
    /\ h.ev = "write" /\ h.res.st = "ok"
    /\ \E i \in 1..4 : i # h.i /\ SuperblockRead(disk, get_header_locs[i]).e = "Checksum"

\* Whether every copy of the image fails Superblock::read with error e.
AllCopiesFail(e) ==
    \A i \in 1..4 : LET r == SuperblockRead(disk, get_header_locs[i])
                    IN r.st = "err" /\ r.e = e

\* C16 as stated: open on a disk whose four copies all have a zeroed
\* signature, a wrong checksum or devid 0 fails with Signature, Checksum or
\* DiskID respectively.
C16_AsStated ==
    h.ev = "open" =>
        \A e \in {"Signature", "Checksum", "DiskID"} :
            AllCopiesFail(e) => (fs.st = "err" /\ fs.e = e)

\* C16 amended: open on such a disk fails with NoSuperblock in all three
\* cases; the error of each Superblock::read is dropped by load_superblocks.
C16_OpenNoSuperblock ==
    h.ev = "open" =>
        \A e \in {"Signature", "Checksum", "DiskID"} :
            AllCopiesFail(e) => (fs.st = "err" /\ fs.e = "NoSuperblock")

\* C16 witness: the open of an image whose four copies have the magic, a
\* good checksum and devid 0.
C16_Witness ==
    /\ h.ev = "open" /\ AllCopiesFail("DiskID")
    /\ \A i \in 1..4 : HasMagic(disk[get_header_locs[i]])
    /\ fs.st = "err" /\ fs.e = "NoSuperblock"

\* The slots of superblock sb whose root group reads and validates.
ValidSlots(d, sb) == {j \in 0..(RootSlots - 1) : FSGroupRead(d, sb.rootnodes[j]).st = "ok"}

\* The first slot of S in the cyclic order that starts at slot from.
FirstFrom(S, from) ==
    CHOOSE j \in S : \A k \in S : (j - from) % RootSlots <= (k - from) % RootSlots

\* C17: Superblock::get_group returns the root group of the first slot that
\* reads and validates, scanning all slots cyclically from latest_root (the
\* slot at latest_root wins when it is valid), and fails with NoFSGroup when
\* no slot is readable, all slots NULL included.
C17_GetGroupScan ==
    h.ev = "get_group" =>
        LET sb == disk[get_header_locs[h.i]]
            S == ValidSlots(disk, sb)
        IN IF S = {} THEN h.res.st = "err" /\ h.res.e = "NoFSGroup"
           ELSE /\ h.res.st = "ok"
                /\ h.res.v = FSGroupRead(disk, sb.rootnodes[FirstFrom(S, sb.latest_root)]).v
                /\ (sb.latest_root \in S => h.res.p = sb.rootnodes[sb.latest_root])

\* The copies load_superblocks keeps whose root group can be read.
ReadableCopies(d) ==
    {i \in 1..4 : load_superblocks(d)[i].t = "sb" /\ get_group(load_superblocks(d)[i], d).st = "ok"}

\* The txid of the root group of copy i.
CopyTxid(d, i) == get_group(load_superblocks(d)[i], d).v.txid

C18_WitnessOpen ==
    /\ h.ev = "open" /\ fs.st = "up"
    /\ fs.cur_txid > CopyTxid(disk, SetMin(ReadableCopies(disk))) + 1

\* The superblock AMFS::get_superblock selects on image d.
ActiveSuperblock(d) == get_superblock(load_superblocks(d), d)

\* C19: Superblock::test_features(S) is true exactly when every bit set in
\* the on-disk feature bitmap is a member of S, and open produces no handle
\* when the active superblock has a feature bit outside the supported set.
C19_FeatureGate ==
    /\ h.ev = "test_features" =>
         (h.res <=> \A b \in FeatureBits :
                       b \in disk[get_header_locs[h.i]].features => b \in h.arg)
    /\ (/\ h.ev = "open"
        /\ ActiveSuperblock(disk).st = "ok"
        /\ \E b \in ActiveSuperblock(disk).v.features : b \notin current_set)
       => fs.st # "up"

\* open refused an image that lacks nothing but a supported feature set.
C19_Witness ==
    /\ h.ev = "open" /\ fs.st = "panic" /\ fs.e = "features"
    /\ ActiveSuperblock(disk).st = "ok"
    /\ "Base" \in ActiveSuperblock(disk).v.features
    /\ ActiveSuperblock(disk).v.features # current_set

\* test_features refused a set that holds some but not all bits of the bitmap.
C19_WitnessTest ==
    /\ h.ev = "test_features" /\ ~h.res
    /\ h.arg \cap disk[get_header_locs[h.i]].features # {}

\* open built a handle although a copy that is not the active one carries an
\* unsupported bit.
C19_WitnessInactive ==
    /\ h.ev = "open" /\ fs.st = "up"
    /\ \E i \in 1..4 : /\ load_superblocks(disk)[i].t = "sb"
                       /\ ~(load_superblocks(disk)[i].features \subseteq current_set)


\* ------------------------------------------------------------------------
\* SpecGeo: DiskGroup::from_geo on a geometry whose device ids were set one
\* by one, against the ids of the disks handed to it
\* ------------------------------------------------------------------------

\* Entries of Geometry::device_ids (256 in the code).
GeoSlots == 3

\* Device ids run over 1..MaxDevId; 0 ends the list of a geometry.
MaxDevId == 3

\* Most disks handed to from_geo.
MaxDisks == 2

\* Geometry::new: every device id zero.
GeometryNew == [t |-> "geo", device_ids |-> [k \in 1..GeoSlots |-> 0], flavor |-> "Single"]

\* The ids load_superblocks reports, one for each disk, in the order of the
\* disks.
KnownDevIds == UNION {[1..n -> 1..MaxDevId] : n \in 1..MaxDisks}

\* The disks that go with the ids: disk j carries devids[j].
DisksOf(devids) == [j \in 1..Len(devids) |-> j]

\* iter().position(|r| *r == devid): the first position of devid, 0 for None.
Position(devids, devid) ==
    IF \E j \in 1..Len(devids) : devids[j] = devid
    THEN SetMin({j \in 1..Len(devids) : devids[j] = devid})
    ELSE 0

\* A loop that steps over a zero id instead of stopping at it.
FromGeoSkipZero(g, devids, ds, k, disks) ==
    LET ids == SelectSeq(g.device_ids, LAMBDA x : x # 0)
    IN IF \E j \in 1..Len(ids) : Position(devids, ids[j]) = 0
       THEN [st |-> "err", e |-> "UnknownDevId", geo |-> g, disks |-> <<>>, allocs |-> <<>>]
       ELSE [st |-> "ok", e |-> "", geo |-> g,
             disks |-> [j \in 1..Len(ids) |-> ds[Position(devids, ids[j])]], allocs |-> <<>>]

\* The loop of DiskGroup::from_geo from entry k on, disks being those pushed
\* so far; ds[disk_no] panics when ds has no such disk.
RECURSIVE FromGeoFrom(_, _, _, _, _)
FromGeoFrom(g, devids, ds, k, disks) ==
    IF k > Len(g.device_ids) \/ g.device_ids[k] = 0
    THEN [st |-> "ok", e |-> "", geo |-> g, disks |-> disks, allocs |-> <<>>]
    ELSE IF Position(devids, g.device_ids[k]) = 0
    THEN [st |-> "err", e |-> "UnknownDevId", geo |-> g, disks |-> <<>>, allocs |-> <<>>]
    ELSE IF Position(devids, g.device_ids[k]) > Len(ds)
    THEN [st |-> "panic", e |-> "index", geo |-> g, disks |-> <<>>, allocs |-> <<>>]
    ELSE FromGeoFrom(g, devids, ds, k + 1, Append(disks, ds[Position(devids, g.device_ids[k])]))

\* DiskGroup::from_geo
from_geo(g, devids, ds) == FromGeoFrom(g, devids, ds, 1, <<>>)

GeoRec(ev, geo, devids, res) == [ev |-> ev, geo |-> geo, devids |-> devids, res |-> res]

GeoInit ==
    /\ h \in {GeoRec("new", GeometryNew, d, <<>>) : d \in KnownDevIds}
    /\ disk = <<>> /\ fs = NoHandle("down", "")
    /\ al = <<>> /\ alOp = <<>> /\ alOp2 = <<>>
    /\ build = "debug" /\ cm = CmIdle /\ cnt = <<>>

\* geo.device_ids[k] = id
GeoSetDeviceId ==
    /\ h.ev = "new"
    /\ \E k \in 1..GeoSlots, id \in 1..MaxDevId :
         /\ h.geo.device_ids[k] = 0
         /\ h' = [h EXCEPT !.geo.device_ids[k] = id]
    /\ UNCHANGED <<disk, fs, al, alOp, alOp2, build, cm, cnt>>

\* DiskGroup::from_geo(geo, &devids, &ds)
GeoFromGeo ==
    /\ h.ev = "new"
    /\ h' = [h EXCEPT !.ev = "from_geo",
                      !.res = from_geo(h.geo, h.devids, DisksOf(h.devids))]
    /\ UNCHANGED <<disk, fs, al, alOp, alOp2, build, cm, cnt>>

GeoNext == GeoSetDeviceId \/ GeoFromGeo

SpecGeo == GeoInit /\ [][GeoNext]_vars

\* The number of device ids before the first zero entry.
IdsBeforeZero(ids) ==
    IF \E k \in 1..Len(ids) : ids[k] = 0
    THEN SetMin({k \in 1..Len(ids) : ids[k] = 0}) - 1
    ELSE Len(ids)

\* C20: from_geo binds, for each device id before the first zero entry and
\* in geometry order, the disk at the position of that id among the known
\* device ids; it fails with UnknownDevId when such an id is not known, and
\* it ignores every entry after the first zero.
C20_FromGeoBinds ==
    h.ev = "from_geo" =>
        LET ids == h.geo.device_ids
            n == IdsBeforeZero(ids)
        IN IF \E k \in 1..n : \A j \in 1..Len(h.devids) : h.devids[j] # ids[k]
           THEN h.res.st = "err" /\ h.res.e = "UnknownDevId"
           ELSE /\ h.res.st = "ok"
                /\ h.res.geo = h.geo
                /\ Len(h.res.disks) = n
                /\ \A k \in 1..n :
                      /\ h.devids[h.res.disks[k]] = ids[k]
                      /\ \A j \in 1..(h.res.disks[k] - 1) : h.devids[j] # ids[k]

\* The second disk bound for the one id before the zero entry, with an
\* unknown id after it.
C20_Witness ==
    /\ h.ev = "from_geo" /\ h.res.st = "ok"
    /\ h.res.disks = <<2>>
    /\ h.geo.device_ids[2] = 0
    /\ h.geo.device_ids[3] # 0
    /\ \A j \in 1..Len(h.devids) : h.devids[j] # h.geo.device_ids[3]

\* Two disks bound in geometry order, which is not the order of the disks.
C20_WitnessOrder == h.ev = "from_geo" /\ h.res.st = "ok" /\ h.res.disks = <<2, 1>>

\* from_geo refused a geometry whose second id is not known.
C20_WitnessUnknown ==
    /\ h.ev = "from_geo" /\ h.res.st = "err"
    /\ \E j \in 1..Len(h.devids) : h.devids[j] = h.geo.device_ids[1]
    /\ h.geo.device_ids[2] # 0


\* ------------------------------------------------------------------------
\* SpecDisk: Disk::get_header_locs on disks of every small size
\* ------------------------------------------------------------------------

\* Largest disk, in blocks.
MaxDiskBlocks == 64

\* The modulus of the u64 arithmetic of Disk::size, scaled down from 2^64.
WordModulus == 65536

\* AMPointerLocal::set_loc: the padding byte 0xFF makes the pointer non-null.
set_loc(p, loc) == [p EXCEPT !.loc = loc, !.null = FALSE]

\* size - k in u64: an overflow panics in a debug build and wraps in a
\* release build.
SubU64(b, size, k) ==
    IF size >= k THEN [st |-> "ok", v |-> size - k]
    ELSE IF b = "debug" THEN [st |-> "panic", v |-> 0]
    ELSE [st |-> "ok", v |-> (size - k) % WordModulus]

\* Disk::get_header_locs on a disk of size blocks, built as b.
GetHeaderLocs(size, b) ==
    IF SubU64(b, size, 2).st = "panic" \/ SubU64(b, size, 1).st = "panic"
    THEN [st |-> "panic", v |-> <<>>]
    ELSE [st |-> "ok",
          v |-> <<set_loc(AMPointerNull, 0), set_loc(AMPointerNull, 1),
                  set_loc(AMPointerNull, SubU64(b, size, 2).v),
                  set_loc(AMPointerNull, SubU64(b, size, 1).v)>>]

\* DiskMem::open(size)
DkInit ==
    /\ h \in {[ev |-> "open", size |-> n, res |-> <<>>] : n \in 0..MaxDiskBlocks}
    /\ build \in {"debug", "release"}
    /\ disk = <<>> /\ fs = NoHandle("down", "")
    /\ al = <<>> /\ alOp = <<>> /\ alOp2 = <<>>
    /\ cm = CmIdle /\ cnt = <<>>

\* disk.get_header_locs()
DkGetHeaderLocs ==
    /\ h.ev = "open"
    /\ h' = [h EXCEPT !.ev = "get_header_locs", !.res = GetHeaderLocs(h.size, build)]
    /\ UNCHANGED <<disk, fs, al, alOp, alOp2, build, cm, cnt>>

DkNext == DkGetHeaderLocs

SpecDisk == DkInit /\ [][DkNext]_vars

\* C21: for every disk of size N blocks, get_header_locs returns, in this
\* order, four non-NULL local pointers to blocks 0, 1, N-2 and N-1.
C21_HeaderLocs ==
    h.ev = "get_header_locs" =>
        /\ h.res.st = "ok"
        /\ Len(h.res.v) = 4
        /\ \A i \in 1..4 : ~h.res.v[i].null
        /\ [i \in 1..4 |-> h.res.v[i].loc] = <<0, 1, h.size - 2, h.size - 1>>


\* ------------------------------------------------------------------------
\* SpecLock: threads calling the operations of one FSHandle, each through
\* the handle's RwLock<AMFS>; allocation, free and commit also take the
\* commit lock AMFS::lock
\* ------------------------------------------------------------------------

\* Threads that hold a clone of the handle.
NThreads == 3

\* State changes counted before no further mutating call is started.
MaxVer == 4

Threads == 1..NThreads

\* The operations that go through FSHandle::write and FSHandle::read.
WriteOps == {"create_object", "write_object", "truncate_object", "commit", "sync"}
ReadOps == {"read_object", "size_object"}

\* A std::sync::RwLock: the thread holding it exclusively (0 for none), the
\* threads holding it shared, and the poison flag.
RwLockNew == [writer |-> 0, readers |-> {}, poisoned |-> FALSE]

\* An exclusive acquisition that does not wait for the readers to leave.
CanWriteOverReaders(L) == L.writer = 0

\* RwLock::write returns once no thread holds the lock.
CanWrite(L) == L.writer = 0 /\ L.readers = {}

\* RwLock::read returns once no thread holds the lock exclusively.
CanRead(L) == L.writer = 0

\* An acquisition that takes the guard out of a poisoned lock.
LockResultIgnoringPoison(L) == "ok"

\* FSHandle::write / FSHandle::read: .or(Err(AMError::Poison)) turns the
\* PoisonError of a poisoned lock into the Poison error and drops its guard.
LockResult(L) == IF L.poisoned THEN "Poison" ELSE "ok"

\* Dropping a guard; a guard dropped while its thread panics poisons the
\* lock when it is the exclusive one.
Unlock(L, t, panicking) ==
    [writer |-> IF L.writer = t THEN 0 ELSE L.writer,
     readers |-> L.readers \ {t},
     poisoned |-> L.poisoned \/ (panicking /\ L.writer = t)]

\* Thread t left its call with result r, all guards dropped.
Leave(t, r, panicking) ==
    [h EXCEPT !.pc[t] = "idle", !.res[t] = r,
              !.fs = Unlock(h.fs, t, panicking), !.lock = Unlock(h.lock, t, panicking)]

LkInit ==
    /\ h = [pc |-> [t \in Threads |-> "idle"], op |-> [t \in Threads |-> "none"],
            res |-> [t \in Threads |-> "none"],
            fs |-> RwLockNew, lock |-> RwLockNew, ver |-> 0]
    /\ disk = <<>> /\ fs = NoHandle("down", "")
    /\ al = <<>> /\ alOp = <<>> /\ alOp2 = <<>>
    /\ build = "debug" /\ cm = CmIdle /\ cnt = <<>>

LkStep(rec) ==
    /\ h' = rec
    /\ UNCHANGED <<disk, fs, al, alOp, alOp2, build, cm, cnt>>

\* A thread calls an operation of the handle.
LkCall(t) ==
    /\ h.pc[t] = "idle"
    /\ \E o \in WriteOps \cup ReadOps :
         /\ o \in WriteOps => h.ver + 3 <= MaxVer
         /\ LkStep([h EXCEPT !.pc[t] = "acquire", !.op[t] = o, !.res[t] = "none"])

\* self.write()? of the mutating operations
LkWrite(t) ==
    /\ h.pc[t] = "acquire" /\ h.op[t] \in WriteOps
    /\ CanWrite(h.fs)
    /\ IF LockResult(h.fs) # "ok" THEN LkStep(Leave(t, LockResult(h.fs), FALSE))
       ELSE LkStep([h EXCEPT !.fs.writer = t,
                             !.pc[t] = CASE h.op[t] = "commit" -> "commit"
                                         [] h.op[t] = "sync" -> "sync"
                                         [] OTHER -> "alloc"])

\* self.read()? of read_object and size_object
LkRead(t) ==
    /\ h.pc[t] = "acquire" /\ h.op[t] \in ReadOps
    /\ CanRead(h.fs)
    /\ IF LockResult(h.fs) # "ok" THEN LkStep(Leave(t, LockResult(h.fs), FALSE))
       ELSE LkStep([h EXCEPT !.fs.readers = @ \cup {t}, !.pc[t] = "read"])

\* AMFS::alloc_blocks / alloc_bytes / realloc / free take lock.read()
LkAllocBegin(t) ==
    /\ h.pc[t] = "alloc"
    /\ CanRead(h.lock)
    /\ IF LockResult(h.lock) # "ok" THEN LkStep(Leave(t, LockResult(h.lock), FALSE))
       ELSE LkStep([h EXCEPT !.lock.readers = @ \cup {t}, !.pc[t] = "allocating"])

\* the allocation or free is done and its guard dropped
LkAllocEnd(t) ==
    /\ h.pc[t] = "allocating"
    /\ LkStep([h EXCEPT !.lock = Unlock(h.lock, t, FALSE), !.ver = @ + 1, !.pc[t] = "update"])

\* *self.get_objects_mut()? = objs
LkUpdate(t) ==
    /\ h.pc[t] = "update"
    /\ LkStep([h EXCEPT !.ver = @ + 1, !.pc[t] = "ret"])

\* AMFS::commit takes lock.write()
LkCommitBegin(t) ==
    /\ h.pc[t] = "commit"
    /\ CanWrite(h.lock)
    /\ IF LockResult(h.lock) # "ok" THEN LkStep(Leave(t, LockResult(h.lock), FALSE))
       ELSE LkStep([h EXCEPT !.lock.writer = t, !.pc[t] = "committing"])

\* the root and the superblocks are written
LkCommitEnd(t) ==
    /\ h.pc[t] = "committing"
    /\ LkStep([h EXCEPT !.lock = Unlock(h.lock, t, FALSE), !.ver = @ + 1, !.pc[t] = "ret"])

\* AMFS::sync, AMFS::read_object and AMFS::size_object change nothing
LkBody(t) ==
    /\ h.pc[t] \in {"sync", "read"}
    /\ LkStep([h EXCEPT !.pc[t] = "ret"])

\* the operation returns and its guard is dropped
LkReturn(t) ==
    /\ h.pc[t] = "ret"
    /\ LkStep(Leave(t, "ok", FALSE))

\* the thread panics inside the operation (an assert!, an expect or an index
\* out of range); unwinding drops its guards
LkPanic(t) ==
    /\ h.pc[t] \in {"alloc", "allocating", "update", "commit", "committing", "sync", "read", "ret"}
    /\ LkStep(Leave(t, "panic", TRUE))

LkNext ==
    \E t \in Threads :
        \/ LkCall(t) \/ LkWrite(t) \/ LkRead(t)
        \/ LkAllocBegin(t) \/ LkAllocEnd(t) \/ LkUpdate(t)
        \/ LkCommitBegin(t) \/ LkCommitEnd(t)
        \/ LkBody(t) \/ LkReturn(t) \/ LkPanic(t)

SpecLock == LkInit /\ [][LkNext]_vars

\* The threads executing an operation, that is, past the handle's lock.
Inside == {t \in Threads : h.pc[t] \notin {"idle", "acquire"}}

C22_WitnessCommit ==
    /\ h.lock.writer # 0
    /\ \A t \in Threads \ {h.lock.writer} : h.pc[t] = "acquire"

\* C23: once a thread has panicked while holding the handle's write lock,
\* every operation that gets to the lock afterwards returns the Poison
\* error, none is let in, and the filesystem state no longer changes.
C23_PoisonedForGood ==
    [][h.fs.poisoned =>
         /\ h'.fs.poisoned
         /\ h'.ver = h.ver
         /\ \A t \in Threads :
               (h.pc[t] = "acquire" /\ h'.pc[t] # "acquire") =>
                   (h'.pc[t] = "idle" /\ h'.res[t] = "Poison")]_vars

\* After the panic of a writer each of the seven operations was refused on
\* some thread: here a read and a commit, with the writer's changes made
\* before its panic still in place.
C23_Witness ==
    /\ h.fs.poisoned /\ h.ver > 0
    /\ \E t, u \in Threads :
          /\ h.res[t] = "Poison" /\ h.op[t] = "read_object"
          /\ h.res[u] = "Poison" /\ h.op[u] = "commit"
          /\ \E w \in Threads \ {t, u} : h.res[w] = "panic" /\ h.op[w] = "write_object"

\* A panic under the read lock poisons nothing: a later write is let in.
C23_WitnessReader ==
    /\ ~h.fs.poisoned
    /\ \E t, u \in Threads : h.res[t] = "panic" /\ h.op[t] \in ReadOps
                             /\ h.pc[u] = "update"


\* ---------------------------------------------------------------------
\* Objects on one mounted filesystem (fs.rs, ondisk/object.rs): the calls
\* create_object, write_object and truncate_object on a fresh image, with
\* sizes and lengths on both sides of a block and of the current size.
\* ---------------------------------------------------------------------

MaxObjOps == 3

\* sizes handed to create_object: below, at and above one block
ObCreateSizes == 1..(BLOCK_SIZE + 1)

\* lengths handed to truncate_object
ObTruncLens == 0..(2 * BLOCK_SIZE + 1)

ObWriteStarts == 0..(BLOCK_SIZE + 1)

ObWriteData == {<<7>>, <<7, 8>>}

ObNone ==
    [name |-> "none", id |-> 0, args |-> <<>>, st |-> "ok", e |-> "", res |-> 0,
     handed |-> <<>>, old |-> [st |-> "ok", e |-> "", v |-> 0],
     pre |-> [st |-> "ok", e |-> "", n |-> 0, data |-> <<>>]]

\* mkfs_single on a blank disk, then the mount
ObInit ==
    /\ disk = mkfs_single(DevId).disk
    /\ fs = open(disk)
    /\ build \in {"debug", "release"}
    /\ h = ObNone
    /\ cnt = [ops |-> 0, commits |-> 0, crashes |-> 0]
    /\ cm = CmIdle
    /\ al = <<>> /\ alOp = <<>> /\ alOp2 = <<>>

\* What a call leaves behind: the disk, the handle, and the record of the
\* call with the object's size and leading bytes as they were before it.
ObDone(name, id, args, res, m, objects, handed, n) ==
    /\ disk' = m.disk
    /\ fs' = After(m, objects)
    /\ h' = [name |-> name, id |-> id, args |-> args, st |-> m.st, e |-> m.e, res |-> res,
             handed |-> handed,
             old |-> size_object(disk, fs.objects, id),
             pre |-> read_object(disk, fs.objects, id, 0, n)]
    /\ cnt' = [cnt EXCEPT !.ops = @ + 1]
    /\ UNCHANGED <<build, cm, avars>>

ObReady == fs.st = "up" /\ cnt.ops < MaxObjOps

\* FSHandle::create_object(id, size)
ObCreate ==
    /\ ObReady
    /\ \E id \in ObjIds, size \in ObCreateSizes :
         \E r \in {create_object(M0, fs.objects, id, size, build)} :
            ObDone("create", id, <<size>>, 0, r.m, r.v,
                   <<Fragment(size, 0, fs_alloc_blocks(M0, 1).v)>>, 0)

\* FSHandle::write_object(id, start, data)
ObWrite ==
    /\ ObReady
    /\ \E id \in ObjIds, start \in ObWriteStarts, data \in ObWriteData :
         \E r \in {write_object(M0, fs.objects, id, start, data, build)} :
            ObDone("write", id, <<start, data>>, r.v.res, r.m, r.v.objects, r.v.frags, 0)

\* FSHandle::truncate_object(id, len)
ObTruncate ==
    /\ ObReady
    /\ \E id \in ObjIds, len \in ObTruncLens :
         \E r \in {truncate_object(M0, fs.objects, id, len, build)} :
            ObDone("truncate", id, <<len>>, 0, r.m, r.v,
                   ObjectTruncate(M0, get_object(disk, fs.objects, id).frags, len).v, len)

ObNext == ObCreate \/ ObWrite \/ ObTruncate

SpecObj == ObInit /\ [][ObNext]_vars

\* C24: after a truncate_object(id, n) that succeeded on an existing object,
\* size_object(id) is n, and when n is at most the old size the first n
\* bytes read back as they did before the call.
C24_TruncateSetsSize ==
    (h.name = "truncate" /\ h.st = "ok" /\ h.old.st = "ok") =>
        /\ size_object(disk, fs.objects, h.id) = [st |-> "ok", e |-> "", v |-> h.args[1]]
        /\ (h.args[1] <= h.old.v /\ h.pre.st = "ok") =>
              read_object(disk, fs.objects, h.id, 0, h.args[1]) = h.pre

\* C25: a write_object(id, start, data) that ends within the object returns
\* Len(data), and reading Len(data) bytes back at start returns Len(data)
\* and the bytes written, however many fragments the object has.
C25_WriteReadBack ==
    (h.name = "write" /\ h.old.st = "ok" /\ h.args[1] + Len(h.args[2]) <= h.old.v) =>
        /\ h.st = "ok"
        /\ h.res = Len(h.args[2])
        /\ read_object(disk, fs.objects, h.id, h.args[1], Len(h.args[2]))
              = [st |-> "ok", e |-> "", n |-> Len(h.args[2]), data |-> h.args[2]]

\* C26: after a call that stored an object with set_object(id, obj),
\* get_object(id) on the object set it returned gives back obj's fragments,
\* whatever the objects stored before id consist of.
C26_SetGetRoundTrip ==
    (h.name # "none" /\ h.st = "ok") =>
        LET o == get_object(disk, fs.objects, h.id)
        IN o.st = "ok" /\ o.some /\ o.frags = h.handed


\* ---------------------------------------------------------------------
\* The ring of root pointers as commits leave it, with the newest slot
\* unreadable (checked on the images of SpecImage).
\* ---------------------------------------------------------------------

\* Slot j of sb points to a root group that reads back.
SlotReadable(d, sb, j) == FSGroupRead(d, sb.rootnodes[j]).st = "ok"

\* A ring as commits leave it when the write of the newest root was torn:
\* slot latest_root does not read back, and either every slot before it
\* reads back and none after it was ever written, or the ring has wrapped
\* and every other slot reads back.
TornRing(d, sb) ==
    LET lr == sb.latest_root
        others == (0..(RootSlots - 1)) \ {lr}
    IN /\ ~SlotReadable(d, sb, lr)
       /\ \/ /\ lr >= 1
             /\ \A j \in others : IF j < lr THEN SlotReadable(d, sb, j) ELSE sb.rootnodes[j].null
          \/ \A j \in others : SlotReadable(d, sb, j)

\* C27: when the slot at latest_root does not read back and the slots of
\* earlier commits do, get_group returns the root of the slot just before
\* latest_root in the ring, the most recently committed one that reads back.
C27_FallbackNewestReadable ==
    h.ev = "get_group" =>
        LET sb == SuperblockRead(disk, get_header_locs[h.i]).v
        IN TornRing(disk, sb) =>
              /\ h.res.st = "ok"
              /\ h.res.p = sb.rootnodes[(sb.latest_root + RootSlots - 1) % RootSlots]


\* ---------------------------------------------------------------------
\* Commits one after another on one mounted filesystem, as many as the
\* ring of root pointers has slots, with objects created in between.
\* ---------------------------------------------------------------------

MaxRingCommits == 3

MaxRingOps == 2

\* mkfs_single and the mount
RgInit ==
    /\ disk = mkfs_single(DevId).disk
    /\ fs = open(disk)
    /\ build \in {"debug", "release"}
    /\ cm = CmIdle
    /\ h = [ev |-> "open", op |-> NoOp, w |-> {}, cur |-> MountState(disk), pend |-> NoState,
            old |-> NoState, crashAt |-> "none", clean |-> FALSE, opened |-> MountState(disk)]
    /\ cnt = [ops |-> 0, commits |-> 0, crashes |-> 0]
    /\ al = <<>> /\ alOp = <<>> /\ alOp2 = <<>>

\* FSHandle::create_object(id, size) between two commits
RgCreate ==
    /\ Ready /\ cnt.ops < MaxRingOps
    /\ \E id \in ObjIds, size \in CreateSizes :
         \E r \in {create_object(M0, fs.objects, id, size, build)} :
            OpDone("create", id, <<size>>, 0, r.m, r.v, <<>>)

\* FSHandle::commit: the start of AMFS::commit
RgCommitBegin ==
    /\ Ready /\ cnt.commits < MaxRingCommits
    /\ \E g \in {get_root_group(fs.sbs, disk)} :
       \E a \in {dg_alloc_blocks(IF g.st = "ok" THEN M0 ELSE MErr(M0, g.e), 1)} :
          CommitStep(a.m,
                     [CmIdle EXCEPT !.pc = "fq", !.rg = [g.v EXCEPT !.objects = fs.objects],
                                    !.root_ptr = a.v],
                     [H0 EXCEPT !.pend = [st |-> "up", root |-> FSGroupNew,
                                          view |-> ObjView(disk, fs.objects)]])
    /\ cnt' = [cnt EXCEPT !.commits = @ + 1]

RgNext ==
    \/ RgCreate
    \/ RgCommitBegin
    \/ CommitFreeQueue
    \/ CommitAllocators
    \/ CommitRoot
    \/ CommitSuperblock
    \/ CommitSync

SpecRing == RgInit /\ [][RgNext]_vars

\* C28: the turn of commit's loop for a superblock copy leaves its
\* latest_root at (old latest_root + 1) mod the ring size, within the ring,
\* with the new root pointer stored in that slot; so the commit that comes
\* after the last slot was used succeeds and reuses slot 0.
C28_LatestRootWraps ==
    [][(fs.st = "up" /\ cm.pc = "sb" /\ fs.sbs[cm.i].t = "sb") =>
          /\ fs'.st = "up"
          /\ fs'.sbs[cm.i].latest_root = (fs.sbs[cm.i].latest_root + 1) % RootSlots
          /\ fs'.sbs[cm.i].rootnodes[fs'.sbs[cm.i].latest_root] = cm.root_ptr]_vars


\* ---------------------------------------------------------------------
\* write_allocators on allocators of every extent count, with list blocks
\* small enough for the count to pass multiples of their capacity.
\* ---------------------------------------------------------------------

PreDiskSize == 14

MaxPerBlock == 4

MaxPreCalls == 5

\* The disk group as write_allocators sees it.
PreWorld == World(disk, al, <<>>, <<>>, 0)

\* h.per: the extent words one list block holds.
PreInit ==
    /\ disk = [i \in 0..(PreDiskSize - 1) |-> ZeroBlock]
    /\ al = AllocatorNew(PreDiskSize)
    /\ \E per \in 2..MaxPerBlock :
          h = [ev |-> "new", per |-> per, before |-> 0, blocks |-> 0, need |-> 0,
               st |-> "ok", e |-> "", back |-> <<>>, n |-> 0]
    /\ alOp = <<>> /\ alOp2 = <<>>
    /\ build = "debug" /\ fs = NoHandle("down", "") /\ cm = CmIdle /\ cnt = <<>>

PreStep(rec, m) ==
    /\ h' = [rec EXCEPT !.n = h.n + 1]
    /\ disk' = m.disk
    /\ al' = m.al
    /\ UNCHANGED <<alOp, alOp2, build, fs, cm, cnt>>

\* DiskGroup::alloc_blocks(n)
PreAlloc ==
    /\ h.st = "ok" /\ h.n < MaxPreCalls
    /\ \E size \in 1..2 : \E r \in {dg_alloc_blocks(PreWorld, size)} :
          /\ r.m.st = "ok"
          /\ PreStep([h EXCEPT !.ev = "alloc"], r.m)

\* Allocator::free of a used extent
PreFree ==
    /\ h.st = "ok" /\ h.n < MaxPreCalls
    /\ \E k \in {x \in DOMAIN al.extents : al.extents[x].used} :
       \E r \in {free(al, k)} :
          /\ r.st = "ok"
          /\ PreStep([h EXCEPT !.ev = "free"], [PreWorld EXCEPT !.al = r.a])

\* FSGroup::write_allocators: the record keeps the extent count before the
\* call, the length of the list Allocator::prealloc returned, the blocks
\* write_preallocd needs for the extent map it is handed, and the values
\* read back from the pointer it returned.
PreWriteAllocators ==
    /\ h.st = "ok" /\ h.n < MaxPreCalls
    /\ \E pa \in {AllocatorPrealloc(PreWorld, h.per)} :
       \E pl \in {LLGPrealloc(pa.m, 1, EntEachAlloc)} :
       \E r \in {WriteAllocatorsPer(PreWorld, FSGroupNew, DevId, h.per)} :
          /\ pl.m.st = "ok"
          /\ PreStep([h EXCEPT !.ev = "write_allocators",
                               !.before = Cardinality(DOMAIN al.extents),
                               !.blocks = Len(pa.v),
                               !.need = LLGBlocksNeeded(Len(AllocatorValues(pl.m.al)), h.per),
                               !.st = r.m.st, !.e = r.m.e,
                               !.back = IF r.m.st = "ok"
                                        THEN LLGRead(r.m.disk,
                                                 LLGRead(r.m.disk, r.v.alloc).v[1].allocator).v
                                        ELSE <<>>],
                     r.m)

PreNext == PreAlloc \/ PreFree \/ PreWriteAllocators

SpecPre == PreInit /\ [][PreNext]_vars

\* C29: whatever the number of extents, the list Allocator::prealloc
\* returned has, once the alloc-list blocks are preallocated too, exactly
\* the blocks write_preallocd needs for the extent map and its leading
\* total; write_allocators passes its block-count assertion and every extent
\* is read back from what it wrote.
C29_PreallocFits ==
    h.ev = "write_allocators" =>
        /\ h.blocks = h.need
        /\ h.st = "ok"
        /\ h.back = AllocatorValues(al)


\* ---------------------------------------------------------------------
\* The allocator stored under the committed root (checked under Spec)
\* ---------------------------------------------------------------------

\* The four superblock copies as they stand on the disk.
CopiesOnDisk(d) ==
    [i \in 1..4 |-> IF d[get_header_locs[i]].t = "sb" THEN d[get_header_locs[i]]
                    ELSE NoSuperblock]

\* The allocator of the disk's own device id in the list under the
\* committed root group of d.
StoredAllocator(d) ==
    Let(CopiesOnDisk(d), LAMBDA sbs :
    Let(get_root_group(sbs, d), LAMBDA g :
    Let(get_allocators(d, g.v), LAMBDA als :
    LET valid == {i \in 1..4 : sbs[i].t = "sb"}
    IN IF valid = {} \/ g.st # "ok" \/ als.st # "ok" THEN [st |-> "err", v |-> AllocatorNew(1)]
       ELSE IF sbs[SetMin(valid)].devid \notin DOMAIN als.v THEN [st |-> "err", v |-> AllocatorNew(1)]
       ELSE [st |-> "ok", v |-> als.v[sbs[SetMin(valid)].devid]])))

\* The blocks in use by the committed generation of d: the superblock
\* locations, the geometry blocks, and everything under the root group.
InUse(d) ==
    Let(CopiesOnDisk(d), LAMBDA sbs :
    Let(get_root_group(sbs, d), LAMBDA g :
    HeaderLocs
    \cup {sbs[i].geometries.loc : i \in {j \in 1..4 : sbs[j].t = "sb"}}
    \cup (IF g.st = "ok" THEN ReachFrom(d, g.v, g.p) ELSE {})))

\* C30: after mkfs_single and after every commit that returned Ok, the
\* allocator stored under the committed root marks every block in use by
\* that generation as used, and after a commit it equals the allocator the
\* handle holds.
C30_AllocatorImage ==
    h.ev \in {"mkfs", "commit"} =>
        Let(StoredAllocator(disk), LAMBDA a :
            /\ a.st = "ok"
            /\ \A b \in InUse(disk) : BlockUsed(a.v, b)
            /\ h.ev = "commit" => a.v = fs.al)

\* A commit returned Ok on a filesystem that holds an object with a fragment
\* on disk.
C30_Witness ==
    /\ h.ev = "commit"
    /\ fs.st = "up"
    /\ ~fs.objects.null
    /\ FragLocs(disk[fs.objects.loc]) # {}
    /\ Cardinality(InUse(disk)) > Cardinality(InUse(mkfs_single(DevId).disk))


\* ---------------------------------------------------------------------
\* The pointers stored under the active superblock (checked under Spec)
\* ---------------------------------------------------------------------

\* The next pointers stored in the blocks of the list that starts at p.
RECURSIVE LLGNextPtrs(_, _, _)
LLGNextPtrs(d, p, fuel) ==
    IF fuel = 0 \/ p.null \/ p.loc \notin DOMAIN d THEN {}
    ELSE {LLGParse(d[p.loc]).next} \cup LLGNextPtrs(d, LLGParse(d[p.loc]).next, fuel - 1)

\* The pointers of the fragments stored in the object list block c.
FragPtrs(c) ==
    LET w == ObjectListParse(c).w
    IN {[loc |-> w[k - 1].v, sum |-> w[k].s, null |-> w[k].v >= 0] :
           k \in {j \in 2..Len(w) : w[j].v = -1 \/ w[j].s # NoSum}}

\* The pointers stored in the root group rg and in the blocks under it.
GroupPtrs(d, rg) ==
    LET lst == LLGRead(d, rg.alloc)
        ents == IF lst.st = "ok" THEN lst.v ELSE <<>>
    IN {rg.alloc, rg.free_queue, rg.objects}
       \cup LLGNextPtrs(d, rg.alloc, DiskSize)
       \cup {ents[i].allocator : i \in DOMAIN ents}
       \cup UNION {LLGNextPtrs(d, ents[i].allocator, DiskSize) : i \in DOMAIN ents}
       \cup LLGNextPtrs(d, rg.free_queue, DiskSize)
       \cup (IF rg.objects.null \/ rg.objects.loc \notin DOMAIN d THEN {}
             ELSE FragPtrs(d[rg.objects.loc]))

\* Every pointer stored on d and reachable from the active superblock.
StoredPtrs(d) ==
    Let(get_superblock(load_superblocks(d), d), LAMBDA s :
    IF s.st # "ok" THEN {}
    ELSE Let(s.v.rootnodes[s.v.latest_root], LAMBDA root :
         {s.v.geometries, root}
         \cup (IF root.null \/ root.loc \notin DOMAIN d THEN {}
               ELSE GroupPtrs(d, FSGroupParse(d[root.loc])))))

\* C31: after mkfs_single and after every commit that returned Ok, every
\* non-null pointer stored on disk and reachable from the active superblock
\* carries the checksum of the block it references.
C31_PointersValidate ==
    h.ev \in {"mkfs", "commit"} =>
        \A p \in StoredPtrs(disk) : p.null \/ validate(disk, p)


\* ---------------------------------------------------------------------
\* The chain a list write leaves on disk (checked under SpecLLG)
\* ---------------------------------------------------------------------

\* The pointers to the blocks of the list that starts at p, head first.
RECURSIVE LLGChain(_, _, _)
LLGChain(d, p, fuel) ==
    IF fuel = 0 \/ p.null \/ p.loc \notin DOMAIN d THEN <<>>
    ELSE <<p>> \o LLGChain(d, LLGParse(d[p.loc]).next, fuel - 1)

\* n is max(1, ceil(len / per)).
IsBlocksFor(n, len, per) ==
    /\ n >= 1 /\ n * per >= len
    /\ n = 1 \/ (n - 1) * per < len

\* C32: a successful write or write_preallocd of a list of len records
\* leaves a chain of exactly max(1, ceil(len / per_block)) blocks that ends
\* in a null next pointer; no block holds more than per_block records,
\* every block but the head holds at least one, and the head pointer
\* returned and every next pointer of the chain validate against the
\* blocks as they are on disk after the call.
C32_ChainShape ==
    (h.ev \in {"write", "write_preallocd"} /\ h.st = "ok") =>
        LET ch == LLGChain(disk, h.ptr, LLGDiskSize + 1)
            blk(i) == LLGParse(disk[ch[i].loc])
        IN /\ IsBlocksFor(Len(ch), Len(h.v), EntEach(h.size))
           /\ blk(Len(ch)).next.null
           /\ \A i \in DOMAIN ch :
                /\ Len(blk(i).ents) <= EntEach(h.size)
                /\ i > 1 => Len(blk(i).ents) >= 1
                /\ validate(disk, ch[i])

\* C32 witness: the second list written, three blocks long, over blocks that
\* held an earlier list.
C32_Witness ==
    /\ h.ev \in {"write", "write_preallocd"} /\ h.st = "ok" /\ h.n = 2
    /\ Len(LLGChain(disk, h.ptr, LLGDiskSize + 1)) = 3
    /\ Len(h.v) = 3

\* C32 second case: a chain whose last block is not full.
C32_WitnessPartial ==
    /\ h.ev = "write" /\ h.st = "ok" /\ h.size = 1 /\ Len(h.v) = 3
    /\ Len(LLGChain(disk, h.ptr, LLGDiskSize + 1)) = 2
    /\ Len(LLGParse(disk[LLGChain(disk, h.ptr, LLGDiskSize + 1)[2].loc]).ents) = 1


\* ---------------------------------------------------------------------
\* What set_object leaves of the other objects (checked under SpecObj)
\* ---------------------------------------------------------------------

\* The header and words of the object list block behind ptr.
StoredList(d, ptr) == ObjectListParse(read_vec(d, ptr).v)

\* The ids inside the range [start_idx, start_idx + n_entries) of the block.
StoredIds(d, ptr) ==
    LET l == StoredList(d, ptr) IN l.start_idx..(l.start_idx + l.n_entries - 1)

\* C33: a call that stored object id with set_object leaves every other
\* object of the block as it was: get_object returns the same fragments for
\* it before and after, whether the new object takes more or fewer bytes
\* than the one it replaces, and n_entries stays when id was stored before.
C33_SetObjectFrame ==
    [][h'.st = "ok" =>
         /\ \A id2 \in StoredIds(disk, fs.objects) \ {h'.id} :
               get_object(disk', fs'.objects, id2) = get_object(disk, fs.objects, id2)
         /\ h'.id \in StoredIds(disk, fs.objects) =>
               StoredList(disk', fs'.objects).n_entries = StoredList(disk, fs.objects).n_entries
      ]_vars


\* ---------------------------------------------------------------------
\* Ids that were never stored (checked under SpecObj)
\* ---------------------------------------------------------------------

\* ObjectSet::exists_object
exists_object(d, objects, id) ==
    Let(get_object(d, objects, id), LAMBDA o :
    [st |-> o.st, e |-> o.e, v |-> o.st = "ok" /\ o.some])

\* C34: exists_object(id) returns true exactly for the ids inside the range
\* of the object list block; for an id that was never stored get_object
\* returns None, size_object and read_object fail, and a write_object or
\* truncate_object on it fails with NoObject.
C34_ExistsExactly ==
    /\ [](\A id \in ObjIds :
            /\ exists_object(disk, fs.objects, id)
                  = [st |-> "ok", e |-> "", v |-> id \in StoredIds(disk, fs.objects)]
            /\ id \notin StoredIds(disk, fs.objects) =>
                  /\ size_object(disk, fs.objects, id).st = "err"
                  /\ read_object(disk, fs.objects, id, 0, 1).st = "err")
    /\ [][(h'.name \in {"write", "truncate"} /\ h'.id \notin StoredIds(disk, fs.objects)) =>
             (h'.st = "err" /\ h'.e = "NoObject" /\ disk' = disk)]_vars


\* ---------------------------------------------------------------------
\* Fragments dropped by a shrinking truncate (checked under SpecObj)
\* ---------------------------------------------------------------------

\* The blocks queued under the current txid of the handle f.
QueuedLocs(f) ==
    IF f.cur_txid \in DOMAIN f.fq
    THEN {f.fq[f.cur_txid][i].loc : i \in DOMAIN f.fq[f.cur_txid]}
    ELSE {}

\* C35: after a truncate_object that shrank an object and dropped whole
\* fragments from its end, the block of every dropped fragment is queued in
\* free_queue[cur_txid].
C35_ShrinkQueuesFragments ==
    [][(h'.name = "truncate" /\ h'.st = "ok") =>
         LET old == get_object(disk, fs.objects, h'.id).frags
         IN \A i \in DOMAIN old :
               i > Len(h'.handed) => old[i].pointer.loc \in QueuedLocs(fs')
      ]_vars


\* ---------------------------------------------------------------------
\* The generation a commit retires (checked under Spec)
\* ---------------------------------------------------------------------

\* The blocks of the generation under the root group rg that hold the group
\* itself, its alloc list, its allocators and its free queue.
GenerationLocs(d, rg) ==
    LET lst == LLGRead(d, rg.alloc)
        ents == IF lst.st = "ok" THEN lst.v ELSE <<>>
    IN {b \in DOMAIN d : d[b] = rg}
       \cup LLGLocs(d, rg.alloc, DiskSize)
       \cup UNION {LLGLocs(d, ents[i].allocator, DiskSize) : i \in DOMAIN ents}
       \cup LLGLocs(d, rg.free_queue, DiskSize)

\* The blocks queued in the handle f, under whatever txid.
AllQueuedLocs(f) ==
    UNION {{f.fq[t][i].loc : i \in DOMAIN f.fq[t]} : t \in DOMAIN f.fq}

\* C36: after a commit that returned Ok, the blocks of the generation it
\* retired (the old root group block, the old alloc-list, allocator and
\* free-queue blocks) that the new root does not reference are queued in
\* the free queue.
C36_RetiredQueued ==
    (h.ev = "commit" /\ h.old.st = "up") =>
        (GenerationLocs(disk, h.old.root) \ Reach(disk)) \subseteq AllQueuedLocs(fs)


\* ---------------------------------------------------------------------
\* SpecFree: blocks taken and given back through a mounted handle
\* (AMFS::alloc_blocks, alloc_bytes, free in fs.rs; DiskGroup::alloc_many)
\* ---------------------------------------------------------------------

\* alloc / free calls in a run.
MaxFreeOps == 4

\* n of alloc_blocks(n) and count of alloc_many(count)
FrCounts == 1..2

\* sizes handed to alloc_bytes: one fragment and two
FrSizes == {1, BLOCK_SIZE + 1}

\* mkfs_single on a blank disk, then the mount; nothing handed out yet.
FrInit ==
    /\ disk = mkfs_single(DevId).disk
    /\ fs = open(disk)
    /\ h = [ev |-> "open", ptr |-> AMPointerNull, st |-> "ok", ret |-> {}, got |-> {}, n |-> 0]
    /\ build = "debug" /\ cm = CmIdle /\ cnt = <<>>
    /\ al = <<>> /\ alOp = <<>> /\ alOp2 = <<>>

\* What a call leaves behind: the world m in the handle, and the record of
\* the call with the pointers it returned.
FrDone(ev, ptr, m, ptrs) ==
    /\ disk' = m.disk
    /\ fs' = After(m, fs.objects)
    /\ h' = [ev |-> ev, ptr |-> ptr, st |-> m.st,
             ret |-> {p.loc : p \in ptrs}, got |-> h.got \cup ptrs, n |-> h.n + 1]
    /\ UNCHANGED <<build, cm, cnt, avars>>

FrReady == fs.st = "up" /\ h.n < MaxFreeOps

\* AMFS::alloc_blocks(n)
FrAllocBlocks ==
    /\ FrReady
    /\ \E n \in FrCounts : \E r \in {fs_alloc_blocks(M0, n)} :
         FrDone("alloc_blocks", AMPointerNull, r.m, IF r.m.st = "ok" THEN {r.v} ELSE {})

\* AMFS::alloc_bytes(size)
FrAllocBytes ==
    /\ FrReady
    /\ \E size \in FrSizes : \E r \in {fs_alloc_bytes(M0, size)} :
         FrDone("alloc_bytes", AMPointerNull, r.m,
                IF r.m.st = "ok" THEN {r.v[i].pointer : i \in DOMAIN r.v} ELSE {})

\* DiskGroup::alloc_many(count) on the disk group of the handle
FrAllocMany ==
    /\ FrReady
    /\ \E count \in FrCounts : \E r \in {dg_alloc_many(M0, count)} :
         FrDone("alloc_many", AMPointerNull, r.m,
                IF r.m.st = "ok" THEN {r.v[i] : i \in DOMAIN r.v} ELSE {})

\* AMFS::free(ptr) on a pointer handed out before
FrFree ==
    /\ FrReady
    /\ \E ptr \in h.got : FrDone("free", ptr, fs_free(M0, ptr), {})

FrNext == FrAllocBlocks \/ FrAllocBytes \/ FrAllocMany \/ FrFree

SpecFree == FrInit /\ [][FrNext]_vars

\* C37: free(ptr) appends one Free(ptr) entry to the journal, appends ptr to
\* free_queue[cur_txid], and changes nothing else of the handle or the disk;
\* the allocator is as it was, so no block that sits in the free queue is
\* returned by a later alloc_blocks, alloc_bytes or alloc_many.
C37_FreeOnlyQueues ==
    [][/\ h'.ev = "free" =>
            /\ h'.st = "ok"
            /\ fs'.jn = Append(fs.jn, [k |-> "Free", p |-> h'.ptr])
            /\ DOMAIN fs'.fq = DOMAIN fs.fq \cup {fs.cur_txid}
            /\ fs'.fq[fs.cur_txid] =
                  (IF fs.cur_txid \in DOMAIN fs.fq THEN fs.fq[fs.cur_txid] ELSE <<>>)
                  \o <<h'.ptr>>
            /\ \A t \in DOMAIN fs.fq \ {fs.cur_txid} : fs'.fq[t] = fs.fq[t]
            /\ fs' = [fs EXCEPT !.jn = fs'.jn, !.fq = fs'.fq]
            /\ disk' = disk
       /\ h'.ev \in {"alloc_blocks", "alloc_bytes", "alloc_many"} =>
            h'.ret \cap AllQueuedLocs(fs) = {}
      ]_vars

\* C37 witness: blocks handed out by an allocation made while two freed
\* blocks sit in the queue of the current txid.
C37_Witness ==
    /\ h.ev \in {"alloc_blocks", "alloc_bytes", "alloc_many"} /\ h.st = "ok" /\ h.ret # {}
    /\ fs.st = "up" /\ fs.cur_txid \in DOMAIN fs.fq /\ Len(fs.fq[fs.cur_txid]) = 2
    /\ Len(fs.jn) >= 2


\* ---------------------------------------------------------------------
\* The superblock copies after a commit (checked under Spec)
\* ---------------------------------------------------------------------

\* The copies of d that Superblock::read accepts.
ValidCopies(d) ==
    LET sbs == load_superblocks(d) IN {sbs[i] : i \in {j \in 1..4 : sbs[j].t = "sb"}}

\* C38: after every commit that returned Ok, the first one after mounting an
\* image left by a commit that stopped during the superblock writes
\* included, all valid superblock copies have the same latest_root and the
\* same rootnodes.
C38_CopiesAgree ==
    h.ev = "commit" =>
        \A a, b \in ValidCopies(disk) :
            a.latest_root = b.latest_root /\ a.rootnodes = b.rootnodes


\* ---------------------------------------------------------------------
\* SpecRead: AllocatorObj::read on extent lists as they may stand on a
\* disk (ondisk/allocator.rs; amfs-tests/tests/test_allocator.rs reads
\* prepared images, the empty list among them)
\* ---------------------------------------------------------------------

\* Largest leading total of an image.
MaxImgTotal == 3

\* Extent words behind the total.
MaxImgExtents == 2

\* Largest size in an extent word.
MaxImgSize == 2

\* Images read in a run.
MaxImages == 2

\* The extent words an image may hold.
ImgWords == {U64(n, used) : n \in 0..MaxImgSize, used \in BOOLEAN}

\* The lists of u64 an image may hold: nothing at all, or a total followed
\* by extent words.
ImgLists ==
    {<<>>} \cup
    {<<U64(t, FALSE)>> \o e :
        t \in 0..MaxImgTotal, e \in UNION {[1..n -> ImgWords] : n \in 0..MaxImgExtents}}

\* The sizes of the extent words of the list vals, summed.
RECURSIVE ImgSum(_, _)
ImgSum(vals, i) == IF i > Len(vals) THEN 0 ELSE vals[i].n + ImgSum(vals, i + 1)

RdInit ==
    /\ disk = [i \in 0..1 |-> ZeroBlock]
    /\ h = [ev |-> "new", vals |-> <<>>, ptr |-> AMPointerNull,
            res |-> [st |-> "ok", e |-> "", v |-> AllocatorNew(1)], n |-> 0]
    /\ build = "debug" /\ fs = NoHandle("down", "") /\ cm = CmIdle /\ cnt = <<>>
    /\ al = <<>> /\ alOp = <<>> /\ alOp2 = <<>>

\* An image is prepared: the list is stored in the disk group.
RdImage ==
    /\ h.ev \in {"new", "read"} /\ h.n < MaxImages
    /\ \E vals \in ImgLists :
         \E w \in {LLGWrite(ScratchGroup(2, AllocatorNew(2)), vals, EntEachU64)} :
            /\ w.m.st = "ok"
            /\ disk' = w.m.disk
            /\ h' = [h EXCEPT !.ev = "image", !.vals = vals, !.ptr = w.v, !.n = @ + 1]
    /\ UNCHANGED <<build, fs, cm, cnt, avars>>

\* Allocator::read(diskgroups, ptr)
RdRead ==
    /\ h.ev = "image"
    /\ h' = [h EXCEPT !.ev = "read", !.res = AllocatorRead(disk, h.ptr)]
    /\ UNCHANGED <<disk, build, fs, cm, cnt, avars>>

RdNext == RdImage \/ RdRead

SpecRead == RdInit /\ [][RdNext]_vars

\* C39: Allocator read returns an error for an image whose extent sizes do
\* not sum to the leading total, and NoAllocator for an image that is an
\* empty list.
C39_ReadRejects ==
    h.ev = "read" =>
        /\ h.vals = <<>> => (h.res.st = "err" /\ h.res.e = "NoAllocator")
        /\ (h.vals # <<>> /\ ImgSum(h.vals, 2) # h.vals[1].n) => h.res.st = "err"

====
